---- MODULE Spec2Model ----
(***************************************************************************)
(* Model of the statement-segmentation engine and of the asynchronous      *)
(* execution / cancellation pipeline of frost (src/src/workspace.rs,       *)
(* src/src/syntax.rs).                                                     *)
(*                                                                         *)
(* Part I  : the DB worker thread (start_db_worker) and the workspace      *)
(*           coordinator on the UI thread (handle_key, start_execute,      *)
(*           execute_role_change, poll_db_responses).  Specification Spec. *)
(* Part II : the scanner (step), the block detectors and the two walks     *)
(*           split_sql and statement_at_caret.  Specification SpecSeg.     *)
(* Part III: the scanner alone.  Specification SpecStep.                   *)
(* Part IV : queries_for_execution over the editor's buffer, selection and *)
(*           caret.  Specification SpecExec.                               *)
(* Part V  : the worker thread driven by run_batch_mode                    *)
(*           (src/src/batch_mode.rs).  Specification SpecBatch.            *)
(***************************************************************************)
EXTENDS Integers, Sequences, FiniteSets, TLC

(***************************************************************************)
(* Bounds of the model.                                                    *)
(***************************************************************************)
\* largest number of statements in one RunQueries request
MaxBatch == 2
\* largest number of RunQueries requests the UI thread sends
MaxRuns == 2
\* largest number of Ctrl+Backspace presses that reach the cancel branch
MaxCancels == 1
\* largest number of text units a buffer is built from
MaxUnits == 2
\* largest length of a byte string handed to the scanner alone
MaxLen == 3

VARIABLES
    \* ---- worker thread (start_db_worker) ----
    wpc,          \* position of the worker thread
    reqQ,         \* request channel  UI -> worker (mpsc, FIFO)
    respQ,        \* response channel worker -> UI (mpsc, FIFO)
    slot,         \* current_stmt: Arc<Mutex<Option<SafeStmt>>>, 0 = None
    wBatch,       \* [id, n] of the RunQueries being iterated
    wIdx,         \* loop variable i of the for loop
    liveStmt,     \* handle of the allocated, not yet dropped Statement, 0 = none
    nextHandle,   \* next fresh native handle
    cancelHit,    \* SQLCancel reached the statement whose native call is pending
    guard,        \* holder of the MutexGuard of current_stmt between steps, or "none"
    \* ---- UI thread (Workspace) ----
    uiPc,         \* "idle" | "polling" | "gone" | "crashed"; "batch" in Part V
    status_message,\* Workspace::status_message
    running,      \* Workspace::running
    total_queries,\* Workspace::total_queries
    tabs,         \* Workspace::results.tabs
    error,        \* Workspace::error  ("none" or the message kind)
    connected,    \* Workspace::connected
    runs,         \* RunQueries requests sent so far
    cancels,      \* cancel branches taken so far
    \* ---- history (not program state) ----
    emitted,      \* responses sent by the worker for the batch wBatch
    lastStarted,  \* [index, ntabs, seen] of the last QueryStarted polled
    lastCancel,   \* target of the last native cancel call issued
    \* ---- segmentation (Part II) ----
    buf,          \* the text handed to split_sql / statement_at_caret
    nunits,       \* number of units buf was built from
    segPc,        \* "build" | "split" | "caret" | "panicked"; "scan" in Part III
    caret,        \* caret offset handed to statement_at_caret
    splitOut,     \* result of split_sql(buf): sequence of [s, e] trimmed spans
    caretOut,     \* result of statement_at_caret(buf, caret): [some, s, e]
    \* ---- the scanner alone (Part III) ----
    scanI,        \* offset handed to the next step call
    scanState,    \* ParseState handed to the next step call
    scanOut,      \* the last step call: [i, entry, next, what, state]
    \* ---- queries_for_execution (Part IV) ----
    selection,    \* Editor::selection: Option<(usize, usize)>, [some, a, b]
    queries,      \* the Vec<String> returned: a sequence of texts
    \* ---- the batch driver (Part V, run_batch_mode) ----
    batchPc,      \* "off" | "recv" | "ok" | "failed" | "timeout"
    exit_on_error,\* BatchConfig::exit_on_error
    batch_total,  \* the local total_queries of run_batch_mode
    results_count,\* the local results_count
    errors_count  \* the local errors_count

workerVars == <<wpc, reqQ, respQ, slot, wBatch, wIdx, liveStmt, nextHandle, cancelHit, guard>>
uiVars     == <<uiPc, status_message, running, total_queries, tabs, error, connected, runs, cancels>>
histVars   == <<emitted, lastStarted, lastCancel>>
scanVars   == <<scanI, scanState, scanOut>>
execVars   == <<selection, queries>>
segVars    == <<buf, nunits, segPc, caret, splitOut, caretOut, scanVars, execVars>>
batchVars  == <<batchPc, exit_on_error, batch_total, results_count, errors_count>>
vars       == <<workerVars, uiVars, histVars, segVars, batchVars>>

(***************************************************************************)
(* Part I.  Messages.                                                      *)
(***************************************************************************)
\* DbWorkerRequest
RunQueries(id, n) == [type |-> "RunQueries", id |-> id, n |-> n]
Cancel            == [type |-> "Cancel",     id |-> 0,  n |-> 0]
Quit              == [type |-> "Quit",       id |-> 0,  n |-> 0]

\* DbWorkerResponse.  batch is history only: the program's messages carry no
\* batch identity.  what is the ResultsContent kind or the error message kind.
Connected             == [type |-> "Connected",     query_idx |-> 0, what |-> "-",  batch |-> 0]
QueryStartedOneBased(b, i) == [type |-> "QueryStarted", query_idx |-> i + 1, what |-> "-", batch |-> b]
QueryStarted(b, i)    == [type |-> "QueryStarted",  query_idx |-> i, what |-> "-",  batch |-> b]
QueryFinished(b, i, r)== [type |-> "QueryFinished", query_idx |-> i, what |-> r,    batch |-> b]
QueryError(b, i, m)   == [type |-> "QueryError",    query_idx |-> i, what |-> m,    batch |-> b]

\* message kinds of QueryError: the text built by format!() in the worker
AllocMsg  == "Statement Allocation Error"
ExecMsg   == "Execution Error"
HY008Msg  == "Execution Error HY008"
StoreMsg  == "TileRowStore error"

IsTerminal(m) == m.type \in {"QueryFinished", "QueryError"}


(***************************************************************************)
(* Part I.  Initial state: Workspace::new has called start_db_worker; the  *)
(* worker thread is spawned and is about to create the environment.        *)
(***************************************************************************)
NoBatch == [id |-> 0, n |-> 0]
NoCancel == [by |-> "nobody", handle |-> 0, live |-> FALSE, executing |-> FALSE]

\* Editor::selection = None
NoSelection == [some |-> FALSE, a |-> 0, b |-> 0]

\* no step call yet
NoStep == [i |-> 0, entry |-> "Normal", next |-> 0, what |-> "None", state |-> "Normal"]

\* run_batch_mode is not running
BatchIdle ==
    /\ batchPc = "off"
    /\ exit_on_error = FALSE
    /\ batch_total = 0
    /\ results_count = 0
    /\ errors_count = 0

SegIdle ==
    /\ buf = <<>>
    /\ nunits = 0
    /\ segPc = "build"
    /\ caret = 0
    /\ splitOut = <<>>
    /\ caretOut = [some |-> FALSE, s |-> 0, e |-> 0]
    /\ scanI = 0
    /\ scanState = "Normal"
    /\ scanOut = NoStep
    /\ selection = NoSelection
    /\ queries = <<>>

Init ==
    /\ wpc = "connecting"
    /\ reqQ = <<>>
    /\ respQ = <<>>
    /\ slot = 0
    /\ wBatch = NoBatch
    /\ wIdx = 0
    /\ liveStmt = 0
    /\ nextHandle = 1
    /\ cancelHit = FALSE
    /\ guard = "none"
    /\ uiPc = "idle"
    /\ status_message = "none"
    /\ running = FALSE
    /\ total_queries = 0
    /\ tabs = <<>>
    /\ error = "none"
    /\ connected = FALSE
    /\ runs = 0
    /\ cancels = 0
    /\ emitted = <<>>
    /\ lastStarted = [index |-> 0, ntabs |-> 0, seen |-> FALSE]
    /\ lastCancel = NoCancel
    /\ BatchIdle
    /\ SegIdle

(***************************************************************************)
(* The worker thread.                                                      *)
(***************************************************************************)
\* resp_tx.send(m): the result of send is discarded (let _ =)
Send(m) ==
    /\ respQ' = Append(respQ, m)
    /\ emitted' = IF m.type = "Connected" THEN emitted ELSE Append(emitted, m)

\* create_environment_v3 / connect_with_connection_string: on failure the
\* thread enters one of the two loops that ignore every request but Quit.
WorkerConnect ==
    /\ wpc = "connecting"
    /\ \/ /\ wpc' = "recv"
          /\ Send(Connected)
       \/ /\ wpc' = "degraded"
          /\ UNCHANGED <<respQ, emitted>>
    /\ UNCHANGED <<reqQ, slot, wBatch, wIdx, liveStmt, nextHandle, cancelHit, guard>>
    /\ UNCHANGED <<uiVars, lastStarted, lastCancel, segVars, batchVars>>

\* a recv() that keeps blocking after the sender is dropped
SenderNeverDropped == FALSE

\* req_rx.recv() returns Err once the queue is empty and the sender is dropped
SenderDropped == uiPc \in {"gone", "crashed"}

\* a degraded loop that tries to connect again on a request
WorkerDegradedRetries ==
    /\ wpc = "degraded"
    /\ \/ /\ reqQ # <<>>
          /\ reqQ' = Tail(reqQ)
          /\ wpc' = IF Head(reqQ).type = "Quit" THEN "exited" ELSE "connecting"
       \/ /\ reqQ = <<>>
          /\ SenderDropped
          /\ wpc' = "exited"
          /\ UNCHANGED reqQ
    /\ UNCHANGED <<respQ, slot, wBatch, wIdx, liveStmt, nextHandle, cancelHit, guard>>
    /\ UNCHANGED <<uiVars, histVars, segVars, batchVars>>

\* the two loops entered when create_environment_v3 or
\* connect_with_connection_string failed: Quit or a dropped sender break,
\* every other request is ignored
WorkerDegraded ==
    /\ wpc = "degraded"
    /\ \/ /\ reqQ # <<>>
          /\ reqQ' = Tail(reqQ)
          /\ wpc' = IF Head(reqQ).type = "Quit" THEN "exited" ELSE "degraded"
       \/ /\ reqQ = <<>>
          /\ SenderDropped
          /\ wpc' = "exited"
          /\ UNCHANGED reqQ
    /\ UNCHANGED <<respQ, slot, wBatch, wIdx, liveStmt, nextHandle, cancelHit, guard>>
    /\ UNCHANGED <<uiVars, histVars, segVars, batchVars>>

\* SQLCancel(h) issued by thread who while the slot holds h.  The call is made
\* on the raw handle: if the Statement that owned h has been dropped the
\* handle is dangling and the driver's behaviour is undefined.
CancelEntry(who, h) ==
    [by |-> who, handle |-> h, live |-> (h = liveStmt), executing |-> (h = liveStmt /\ wpc \in {"exec", "fetch"})]

\* a main loop whose Cancel arm unwraps the slot: it panics on an empty one
WorkerRecvUnwraps ==
    /\ wpc = "recv"
    /\ \/ /\ reqQ # <<>>
          /\ Head(reqQ).type = "RunQueries"
          /\ reqQ' = Tail(reqQ)
          /\ wBatch' = [id |-> Head(reqQ).id, n |-> Head(reqQ).n]
          /\ wIdx' = 0
          /\ wpc' = "loop"
          /\ emitted' = <<>>
          /\ UNCHANGED <<lastCancel, cancelHit>>
       \/ /\ reqQ # <<>>
          /\ Head(reqQ).type = "Cancel"
          /\ reqQ' = Tail(reqQ)
          /\ lastCancel' = IF slot # 0 THEN CancelEntry("worker", slot) ELSE lastCancel
          /\ \/ wpc' = IF slot = 0 THEN "panicked" ELSE "recv"
             \/ \* SQLCancel on the handle of a dropped Statement: undefined
                /\ slot # 0
                /\ slot # liveStmt
                /\ wpc' = "crashed"
          /\ UNCHANGED <<wBatch, wIdx, emitted, cancelHit>>
       \/ /\ reqQ # <<>>
          /\ Head(reqQ).type = "Quit"
          /\ reqQ' = Tail(reqQ)
          /\ wpc' = "exited"
          /\ UNCHANGED <<wBatch, wIdx, emitted, lastCancel, cancelHit>>
       \/ /\ reqQ = <<>>
          /\ SenderDropped
          /\ wpc' = "exited"
          /\ UNCHANGED <<reqQ, wBatch, wIdx, emitted, lastCancel, cancelHit>>
    /\ uiPc' = IF wpc' = "crashed" THEN "crashed" ELSE uiPc
    /\ UNCHANGED <<respQ, slot, liveStmt, nextHandle, guard>>
    /\ UNCHANGED <<status_message, running, total_queries, tabs, error, connected, runs, cancels>>
    /\ UNCHANGED <<lastStarted, segVars, batchVars>>

\* the main loop: match req_rx.recv()
WorkerRecv ==
    /\ wpc = "recv"
    /\ \/ /\ reqQ # <<>>
          /\ Head(reqQ).type = "RunQueries"
          /\ reqQ' = Tail(reqQ)
          /\ wBatch' = [id |-> Head(reqQ).id, n |-> Head(reqQ).n]
          /\ wIdx' = 0
          /\ wpc' = "loop"
          /\ emitted' = <<>>
          /\ UNCHANGED <<lastCancel, cancelHit>>
       \/ /\ reqQ # <<>>
          /\ Head(reqQ).type = "Cancel"
          /\ reqQ' = Tail(reqQ)
          /\ lastCancel' = IF slot # 0 THEN CancelEntry("worker", slot) ELSE lastCancel
          /\ \/ wpc' = "recv"
             \/ \* SQLCancel on the handle of a dropped Statement: undefined
                /\ slot # 0
                /\ slot # liveStmt
                /\ wpc' = "crashed"
          /\ UNCHANGED <<wBatch, wIdx, emitted, cancelHit>>
       \/ /\ reqQ # <<>>
          /\ Head(reqQ).type = "Quit"
          /\ reqQ' = Tail(reqQ)
          /\ wpc' = "exited"
          /\ UNCHANGED <<wBatch, wIdx, emitted, lastCancel, cancelHit>>
       \/ /\ reqQ = <<>>
          /\ SenderDropped
          /\ wpc' = "exited"
          /\ UNCHANGED <<reqQ, wBatch, wIdx, emitted, lastCancel, cancelHit>>
    /\ uiPc' = IF wpc' = "crashed" THEN "crashed" ELSE uiPc
    /\ UNCHANGED <<respQ, slot, liveStmt, nextHandle, guard>>
    /\ UNCHANGED <<status_message, running, total_queries, tabs, error, connected, runs, cancels>>
    /\ UNCHANGED <<lastStarted, segVars, batchVars>>

\* a loop head that looks into the request channel (try_recv) and gives up
\* the batch when a Cancel or Quit is waiting there
WorkerStartedPollsRequests ==
    /\ wpc = "loop"
    /\ IF reqQ # <<>> /\ Head(reqQ).type \in {"Cancel", "Quit"}
         THEN /\ reqQ' = Tail(reqQ)
              /\ wpc' = IF Head(reqQ).type = "Quit" THEN "exited" ELSE "recv"
              /\ UNCHANGED <<respQ, emitted>>
         ELSE /\ UNCHANGED reqQ
              /\ IF wIdx < wBatch.n
                   THEN /\ Send(QueryStarted(wBatch.id, wIdx))
                        /\ wpc' = "alloc"
                   ELSE /\ wpc' = "recv"
                        /\ UNCHANGED <<respQ, emitted>>
    /\ UNCHANGED <<slot, wBatch, wIdx, liveStmt, nextHandle, cancelHit, guard>>
    /\ UNCHANGED <<uiVars, lastStarted, lastCancel, segVars, batchVars>>

\* for (i, (query, context)) in queries_with_context.iter().enumerate():
\* the loop head, and the send of QueryStarted for entry i
WorkerStarted ==
    /\ wpc = "loop"
    /\ IF wIdx < wBatch.n
         THEN /\ Send(QueryStarted(wBatch.id, wIdx))
              /\ wpc' = "alloc"
         ELSE /\ wpc' = "recv"
              /\ UNCHANGED <<respQ, emitted>>
    /\ UNCHANGED <<reqQ, slot, wBatch, wIdx, liveStmt, nextHandle, cancelHit, guard>>
    /\ UNCHANGED <<uiVars, lastStarted, lastCancel, segVars, batchVars>>

\* a guard bound to a local of the loop body: the mutex stays locked while
\* the statement executes
GuardAfterSetKept == "worker"

\* *thread_stmt.lock().unwrap() = Some(..): the MutexGuard is a temporary of
\* the assignment statement and is dropped at its end
GuardAfterSet == "none"

\* an allocation error that ends the thread instead of the batch
WorkerAllocHalts ==
    /\ wpc = "alloc"
    /\ \/ /\ Send(QueryError(wBatch.id, wIdx, AllocMsg))
          /\ wpc' = "exited"
          /\ UNCHANGED <<slot, liveStmt, nextHandle, guard>>
       \/ /\ liveStmt' = nextHandle
          /\ nextHandle' = nextHandle + 1
          /\ slot' = nextHandle
          /\ guard' = GuardAfterSet
          /\ wpc' = "exec"
          /\ UNCHANGED <<respQ, emitted>>
    /\ cancelHit' = FALSE
    /\ UNCHANGED <<reqQ, wBatch, wIdx>>
    /\ UNCHANGED <<uiVars, lastStarted, lastCancel, segVars, batchVars>>

\* Statement::with_parent(&conn): Err -> QueryError and break;
\* Ok -> the handle is written into the slot
WorkerAlloc ==
    /\ wpc = "alloc"
    /\ \/ /\ Send(QueryError(wBatch.id, wIdx, AllocMsg))
          /\ wpc' = "recv"
          /\ UNCHANGED <<slot, liveStmt, nextHandle, guard>>
       \/ /\ liveStmt' = nextHandle
          /\ nextHandle' = nextHandle + 1
          /\ slot' = nextHandle
          /\ guard' = GuardAfterSet
          /\ wpc' = "exec"
          /\ UNCHANGED <<respQ, emitted>>
    /\ cancelHit' = FALSE
    /\ UNCHANGED <<reqQ, wBatch, wIdx>>
    /\ UNCHANGED <<uiVars, lastStarted, lastCancel, segVars, batchVars>>

\* stmt.exec_direct(query) returns
WorkerExec ==
    /\ wpc = "exec"
    /\ \/ \* Ok(Data(stmt)): a result set; the rows are fetched next
          /\ wpc' = "fetch"
          /\ UNCHANGED <<respQ, emitted, liveStmt>>
       \/ \* Ok(NoData(statement)): QueryFinished with an Info; statement dropped
          /\ Send(QueryFinished(wBatch.id, wIdx, "Info"))
          /\ liveStmt' = 0
          /\ wpc' = "clear"
       \/ \* Err(e): QueryError and break; the Statement was consumed and dropped
          /\ Send(QueryError(wBatch.id, wIdx, IF cancelHit THEN HY008Msg ELSE ExecMsg))
          /\ liveStmt' = 0
          /\ wpc' = "recv"
    /\ UNCHANGED <<reqQ, slot, wBatch, wIdx, nextHandle, cancelHit, guard>>
    /\ UNCHANGED <<uiVars, lastStarted, lastCancel, segVars, batchVars>>

\* TileRowStore::from_rows over stmt.fetch().unwrap()
WorkerFetch ==
    /\ wpc = "fetch"
    /\ \/ \* every fetch succeeded and the store was built
          /\ Send(QueryFinished(wBatch.id, wIdx, "Table"))
          /\ liveStmt' = 0
          /\ wpc' = "clear"
          /\ UNCHANGED wIdx
       \/ \* from_rows returned Err: QueryError and continue
          /\ Send(QueryError(wBatch.id, wIdx, StoreMsg))
          /\ liveStmt' = 0
          /\ wIdx' = wIdx + 1
          /\ wpc' = "loop"
       \/ \* a fetch returned Err (a cancelled or failed native call): unwrap panics
          /\ liveStmt' = 0
          /\ wpc' = "panicked"
          /\ UNCHANGED <<respQ, emitted, wIdx>>
    /\ UNCHANGED <<reqQ, slot, wBatch, nextHandle, cancelHit, guard>>
    /\ UNCHANGED <<uiVars, lastStarted, lastCancel, segVars, batchVars>>

\* *thread_stmt.lock().unwrap() = None; at the end of the loop body
WorkerClear ==
    /\ wpc = "clear"
    /\ slot' = 0
    /\ guard' = "none"
    /\ wIdx' = wIdx + 1
    /\ wpc' = "loop"
    /\ UNCHANGED <<reqQ, respQ, wBatch, liveStmt, nextHandle, cancelHit>>
    /\ UNCHANGED <<uiVars, histVars, segVars, batchVars>>

Worker ==
    \/ WorkerConnect
    \/ WorkerDegraded
    \/ WorkerRecv
    \/ WorkerStarted
    \/ WorkerAlloc
    \/ WorkerExec
    \/ WorkerFetch
    \/ WorkerClear


(***************************************************************************)
(* The UI thread: Workspace::handle_key, start_execute,                    *)
(* execute_role_change, poll_db_responses.                                 *)
(***************************************************************************)
UiIdle == uiPc = "idle"

\* ResultsTab::new_pending_with_start; batch and made_for are history: the
\* batch and the index of the QueryStarted that created the tab
PendingTab(m) ==
    [content |-> "Pending", running |-> TRUE, batch |-> m.batch, made_for |-> m.query_idx]

\* the part shared by start_execute (after the empty check) and
\* execute_role_change: clear the tabs, mark the run, send the request
SubmitBatch(n) ==
    /\ runs < MaxRuns
    /\ runs' = runs + 1
    /\ tabs' = <<>>
    /\ error' = "none"
    /\ running' = TRUE
    /\ total_queries' = n
    /\ reqQ' = Append(reqQ, RunQueries(runs + 1, n))

\* a start_execute that clears the results and the error before it looks at
\* the statement list
StartExecuteClearsFirst(n) ==
    /\ UiIdle
    /\ ~running
    /\ IF n = 0
         THEN /\ status_message' = "No SQL statement at caret/selection."
              /\ tabs' = <<>>
              /\ error' = "none"
              /\ UNCHANGED <<runs, running, total_queries, reqQ>>
         ELSE /\ SubmitBatch(n)
              /\ UNCHANGED status_message
    /\ UNCHANGED <<uiPc, connected, cancels>>
    /\ UNCHANGED <<wpc, respQ, slot, wBatch, wIdx, liveStmt, nextHandle, cancelHit, guard>>
    /\ UNCHANGED <<histVars, segVars, batchVars>>

\* Ctrl+Enter: ignored while running, otherwise start_execute with the n
\* statements queries_for_execution returned
StartExecute(n) ==
    /\ UiIdle
    /\ ~running
    /\ IF n = 0
         THEN /\ status_message' = "No SQL statement at caret/selection."
              /\ UNCHANGED <<runs, tabs, error, running, total_queries, reqQ>>
         ELSE /\ SubmitBatch(n)
              /\ UNCHANGED status_message
    /\ UNCHANGED <<uiPc, connected, cancels>>
    /\ UNCHANGED <<wpc, respQ, slot, wBatch, wIdx, liveStmt, nextHandle, cancelHit, guard>>
    /\ UNCHANGED <<histVars, segVars, batchVars>>

\* TreeAction::ChangeRole: execute_role_change with one ("ALL") or two queries
execute_role_change(n) ==
    /\ UiIdle
    /\ SubmitBatch(n)
    /\ status_message' = "Changing role..."
    /\ UNCHANGED <<uiPc, connected, cancels>>
    /\ UNCHANGED <<wpc, respQ, slot, wBatch, wIdx, liveStmt, nextHandle, cancelHit, guard>>
    /\ UNCHANGED <<histVars, segVars, batchVars>>

\* Ctrl+Backspace while running: SQLCancel on the handle in the slot, then the
\* Cancel request, then running = false.  A call on a dangling handle is
\* undefined behaviour: it returns without effect or the process dies.
\* self.current_stmt.lock() returns only when no other thread holds the mutex.
CancelKey ==
    /\ UiIdle
    /\ running
    /\ cancels < MaxCancels
    /\ guard = "none"
    /\ cancels' = cancels + 1
    /\ reqQ' = Append(reqQ, Cancel)
    /\ running' = FALSE
    /\ status_message' = "Query cancellation requested"
    /\ lastCancel' = IF slot # 0 THEN CancelEntry("ui", slot) ELSE lastCancel
    /\ \/ /\ cancelHit' = (cancelHit \/ (slot # 0 /\ slot = liveStmt /\ wpc \in {"exec", "fetch"}))
          /\ UNCHANGED <<uiPc, wpc>>
       \/ /\ slot # 0
          /\ slot # liveStmt
          /\ uiPc' = "crashed"
          /\ wpc' = "crashed"
          /\ UNCHANGED cancelHit
    /\ UNCHANGED <<total_queries, tabs, error, connected, runs>>
    /\ UNCHANGED <<respQ, slot, wBatch, wIdx, liveStmt, nextHandle, guard>>
    /\ UNCHANGED <<emitted, lastStarted, segVars, batchVars>>

\* a QueryFinished that clears the flag whatever its index
RunningAfterFinishedAny(query_idx, total, was) == FALSE

\* QueryFinished: the running flag after the message
RunningAfterFinished(query_idx, total, was) ==
    IF query_idx + 1 < total THEN was ELSE FALSE

\* a coordinator that knows no sentinel: every QueryError is a failure
IsCancelMessageNever(m) == FALSE

\* QueryError: is_cancel = message.contains("HY008")
IsCancelMessage(m) == m = HY008Msg

\* the tab at query_idx after QueryFinished / QueryError
FinishedTab(tab, m) == [tab EXCEPT !.content = m.what, !.running = FALSE]
ErrorTab(tab, m) ==
    [tab EXCEPT !.content = IF IsCancelMessage(m.what) THEN "Cancelled." ELSE "Error",
                !.running = FALSE]

\* tabs.get_mut(query_idx): 0-based index into the Vec
HasTab(i) == i + 1 <= Len(tabs)

\* one iteration of `while let Ok(msg) = self.db_resp_rx.try_recv()`
PollRecv ==
    /\ uiPc \in {"idle", "polling"}
    /\ respQ # <<>>
    /\ uiPc' = "polling"
    /\ respQ' = Tail(respQ)
    /\ LET m == Head(respQ) IN
       \/ /\ m.type = "Connected"
          /\ connected' = TRUE
          /\ status_message' = "Connected to Snowflake"
          /\ UNCHANGED <<tabs, running, error, lastStarted>>
       \/ /\ m.type = "QueryStarted"
          /\ tabs' = Append(tabs, PendingTab(m))
          /\ running' = TRUE
          /\ lastStarted' = [index |-> m.query_idx, ntabs |-> Len(tabs), seen |-> TRUE]
          /\ UNCHANGED <<connected, status_message, error>>
       \/ /\ m.type = "QueryFinished"
          /\ tabs' = IF HasTab(m.query_idx)
                       THEN [tabs EXCEPT ![m.query_idx + 1] = FinishedTab(@, m)]
                       ELSE tabs
          /\ running' = RunningAfterFinished(m.query_idx, total_queries, running)
          /\ UNCHANGED <<connected, status_message, error, lastStarted>>
       \/ /\ m.type = "QueryError"
          /\ tabs' = IF HasTab(m.query_idx)
                       THEN [tabs EXCEPT ![m.query_idx + 1] = ErrorTab(@, m)]
                       ELSE tabs
          /\ running' = FALSE
          /\ error' = IF IsCancelMessage(m.what) THEN error ELSE m.what
          /\ UNCHANGED <<connected, status_message, lastStarted>>
    /\ UNCHANGED <<total_queries, runs, cancels>>
    /\ UNCHANGED <<wpc, reqQ, slot, wBatch, wIdx, liveStmt, nextHandle, cancelHit, guard>>
    /\ UNCHANGED <<emitted, lastCancel, segVars, batchVars>>

\* try_recv() found the channel empty: poll_db_responses returns
PollReturn ==
    /\ uiPc = "polling"
    /\ respQ = <<>>
    /\ uiPc' = "idle"
    /\ UNCHANGED <<status_message, running, total_queries, tabs, error, connected, runs, cancels>>
    /\ UNCHANGED <<workerVars, histVars, segVars, batchVars>>

\* the process ends: batch mode sends Quit first (run_batch_mode), the TUI
\* only drops the Workspace and with it the request sender
UiExit(sendQuit) ==
    /\ UiIdle
    /\ uiPc' = "gone"
    /\ reqQ' = IF sendQuit THEN Append(reqQ, Quit) ELSE reqQ
    /\ UNCHANGED <<status_message, running, total_queries, tabs, error, connected, runs, cancels>>
    /\ UNCHANGED <<wpc, respQ, slot, wBatch, wIdx, liveStmt, nextHandle, cancelHit, guard>>
    /\ UNCHANGED <<histVars, segVars, batchVars>>

Ui ==
    \/ \E n \in 0..MaxBatch : StartExecute(n)
    \/ \E n \in 1..2 : execute_role_change(n)
    \/ CancelKey
    \/ PollRecv
    \/ PollReturn
    \/ \E q \in BOOLEAN : UiExit(q)

Next == Worker \/ Ui

Spec == Init /\ [][Next]_vars

(***************************************************************************)
(* Part I with its scheduling, for what must eventually happen when the    *)
(* user only submits batches and leaves (no Ctrl+Backspace, no role        *)
(* change).  The worker thread runs whenever it has a step to take: recv() *)
(* returns when a request is queued or the sender is dropped, and every    *)
(* native call returns.  The event loop calls poll_db_responses on every   *)
(* frame, and the poll runs until the channel is empty.                    *)
(***************************************************************************)
UiLive ==
    \/ \E n \in 0..MaxBatch : StartExecute(n)
    \/ PollRecv
    \/ PollReturn
    \/ \E q \in BOOLEAN : UiExit(q)

NextLive == Worker \/ UiLive

Fairness == WF_vars(Worker) /\ WF_vars(PollRecv) /\ WF_vars(PollReturn)

SpecLive == Init /\ [][NextLive]_vars /\ Fairness


(***************************************************************************)
(* Part II.  Text.  A text is a sequence of bytes, each written as a       *)
(* one-character string; offsets are 0-based as in the source.             *)
(***************************************************************************)
\* bytes[i]
At(bytes, i) == bytes[i + 1]
\* bytes.get(i): "" stands for None
Get(bytes, i) == IF i < Len(bytes) THEN bytes[i + 1] ELSE ""

\* u8::is_ascii_whitespace, on the bytes of the alphabet
IsWs(c) == c \in {" ", "\n"}

\* u8::is_ascii_alphanumeric, on the bytes of the alphabet
Alnum ==
    {"A", "B", "C", "D", "E", "F", "G", "I", "K", "L", "N", "O", "P", "R", "S", "T", "U",
     "b", "d", "e", "g", "i", "n", "t", "x", "y", "1"}
IsAlnum(c) == c \in Alnum

\* u8::to_ascii_uppercase, on the bytes of the alphabet
Upper(c) ==
    CASE c = "b" -> "B" [] c = "d" -> "D" [] c = "e" -> "E" [] c = "g" -> "G"
      [] c = "i" -> "I" [] c = "n" -> "N" [] c = "t" -> "T" [] c = "x" -> "X"
      [] c = "y" -> "Y" [] OTHER -> c

\* the keywords, as byte sequences
kwAS          == <<"A", "S">>
kwEND         == <<"E", "N", "D">>
kwBEGIN       == <<"B", "E", "G", "I", "N">>
kwDECLARE     == <<"D", "E", "C", "L", "A", "R", "E">>
kwTRANSACTION == <<"T", "R", "A", "N", "S", "A", "C", "T", "I", "O", "N">>
kwCREATE_TASK == <<"C", "R", "E", "A", "T", "E", " ", "T", "A", "S", "K">>

\* text[pos .. pos + len(word)].eq_ignore_ascii_case(word), for a slice that
\* lies inside the text
EqIgnoreCaseAt(text, pos, word) ==
    \A k \in 1..Len(word) : Upper(text[pos + k]) = word[k]

\* offset of the first byte at or after i that is not whitespace (len if none)
RECURSIVE SkipWs(_, _)
SkipWs(text, i) ==
    IF i < Len(text) /\ IsWs(At(text, i)) THEN SkipWs(text, i + 1) ELSE i

\* offset after the last byte before e (and not before s) that is not whitespace
RECURSIVE SkipWsBack(_, _, _)
SkipWsBack(text, s, e) ==
    IF e > s /\ IsWs(At(text, e - 1)) THEN SkipWsBack(text, s, e - 1) ELSE e

\* text[a..b] without the trim
TrimNone(text, a, b) == [s |-> a, e |-> b]

\* text[a..b].trim(), as the span [s, e) it occupies in text; s = e if empty
Trim(text, a, b) ==
    LET s == IF SkipWs(text, a) < b THEN SkipWs(text, a) ELSE b
    IN  [s |-> s, e |-> SkipWsBack(text, s, b)]

IsEmptySpan(sp) == sp.s >= sp.e

\* text[i..].trim().to_uppercase().starts_with(word)
StartsWithTrimmed(text, i, word) ==
    LET p == SkipWs(text, i)
    IN  /\ p + Len(word) <= Len(text)
        /\ EqIgnoreCaseAt(text, p, word)

\* text[i..].to_uppercase().contains(word)
ContainsFrom(text, i, word) ==
    \E p \in i..(Len(text) - Len(word)) : EqIgnoreCaseAt(text, p, word)

(***************************************************************************)
(* The scanner: syntax.rs, step.  The result carries the new ParseState.   *)
(***************************************************************************)
ParseStates == {"Normal", "InSingle", "InDouble", "InBlock", "InLine", "InDollar"}

StepResult(n, w, st) == [next |-> n, what |-> w, state |-> st]

\* ParseState::Normal with a two-byte opener taken on its first byte alone
step_NormalGreedy(bytes, i) ==
    LET c == At(bytes, i)
    IN  IF c = "'" THEN StepResult(i + 1, "Advance", "InSingle")
        ELSE IF c = "\"" THEN StepResult(i + 1, "Advance", "InDouble")
        ELSE IF c = "/" THEN StepResult(i + 2, "Advance", "InBlock")
        ELSE IF c = "-" THEN StepResult(i + 2, "Advance", "InLine")
        ELSE IF c = "$" THEN StepResult(i + 2, "Advance", "InDollar")
        ELSE IF c = ";" THEN StepResult(i + 1, "Semi", "Normal")
        ELSE StepResult(i + 1, "Advance", "Normal")

\* ParseState::Normal
step_Normal(bytes, i) ==
    LET c == At(bytes, i)
        d == Get(bytes, i + 1)
    IN  IF c = "'" THEN StepResult(i + 1, "Advance", "InSingle")
        ELSE IF c = "\"" THEN StepResult(i + 1, "Advance", "InDouble")
        ELSE IF c = "/" /\ d = "*" THEN StepResult(i + 2, "Advance", "InBlock")
        ELSE IF c = "-" /\ d = "-" THEN StepResult(i + 2, "Advance", "InLine")
        ELSE IF c = "$" /\ d = "$" THEN StepResult(i + 2, "Advance", "InDollar")
        ELSE IF c = ";" THEN StepResult(i + 1, "Semi", "Normal")
        ELSE StepResult(i + 1, "Advance", "Normal")

\* a quoted state without the backslash arm
step_QuotedNoBackslash(bytes, i, q, state) ==
    LET c == At(bytes, i)
        d == Get(bytes, i + 1)
    IN  IF c = q THEN IF d = q THEN StepResult(i + 2, "Advance", state)
                              ELSE StepResult(i + 1, "Advance", "Normal")
        ELSE StepResult(i + 1, "Advance", state)

\* ParseState::InSingle (q is ') and ParseState::InDouble (q is ")
step_Quoted(bytes, i, q, state) ==
    LET c == At(bytes, i)
        d == Get(bytes, i + 1)
    IN  IF c = q THEN IF d = q THEN StepResult(i + 2, "Advance", state)
                              ELSE StepResult(i + 1, "Advance", "Normal")
        ELSE IF c = "\\" /\ d = q THEN StepResult(i + 2, "Advance", state)
        ELSE StepResult(i + 1, "Advance", state)

\* a two-byte terminator taken on its second byte alone
step_TwoByteLoose(bytes, i, a, b, state) ==
    IF Get(bytes, i + 1) = b
      THEN StepResult(i + 2, "Advance", "Normal")
      ELSE StepResult(i + 1, "Advance", state)

\* ParseState::InBlock (the terminator a, b is * then /) and
\* ParseState::InDollar (the terminator is $ then $)
step_TwoByte(bytes, i, a, b, state) ==
    IF At(bytes, i) = a /\ Get(bytes, i + 1) = b
      THEN StepResult(i + 2, "Advance", "Normal")
      ELSE StepResult(i + 1, "Advance", state)

\* a line comment that lets a semicolon through as a boundary
step_InLineSemi(bytes, i) ==
    IF At(bytes, i) = "\n" THEN StepResult(i + 1, "Advance", "Normal")
    ELSE IF At(bytes, i) = ";" THEN StepResult(i + 1, "Semi", "InLine")
    ELSE StepResult(i + 1, "Advance", "InLine")

\* ParseState::InLine
step_InLine(bytes, i) ==
    IF At(bytes, i) = "\n" THEN StepResult(i + 1, "Advance", "Normal")
    ELSE StepResult(i + 1, "Advance", "InLine")

step(bytes, i, state) ==
    IF i >= Len(bytes) THEN StepResult(i, "Eof", state)
    ELSE CASE state = "Normal"   -> step_Normal(bytes, i)
           [] state = "InSingle" -> step_Quoted(bytes, i, "'", state)
           [] state = "InDouble" -> step_Quoted(bytes, i, "\"", state)
           [] state = "InBlock"  -> step_TwoByte(bytes, i, "*", "/", state)
           [] state = "InLine"   -> step_InLine(bytes, i)
           [] state = "InDollar" -> step_TwoByte(bytes, i, "$", "$", state)

(***************************************************************************)
(* find_enclosing_block: the scan of the whole buffer for DECLARE/BEGIN    *)
(* blocks.  None is the span [-1, -1).                                     *)
(***************************************************************************)
NoSpan == [s |-> 0 - 1, e |-> 0 - 1]
IsSome(sp) == sp.s >= 0

\* the closure has_keyword_at of find_enclosing_block
has_keyword_at(text, pos, keyword) ==
    IF pos + Len(keyword) > Len(text) THEN FALSE
    ELSE IF ~EqIgnoreCaseAt(text, pos, keyword) THEN FALSE
    ELSE LET before_ok == pos = 0 \/ ~IsAlnum(At(text, pos - 1))
             after_pos == pos + Len(keyword)
             after_ok  == after_pos >= Len(text) \/ ~IsAlnum(At(text, after_pos))
         IN  before_ok /\ after_ok

\* end_pos = j + 3, then the whitespace and one optional semicolon
EndPosAfter(text, j) ==
    LET w == SkipWs(text, j)
    IN  IF w < Len(text) /\ At(text, w) = ";" THEN w + 1 ELSE w

\* the inner `while j < buf.len()` of both branches: the offset of the END
\* that brings begin_count to 0, or -1 when j ran to the end of the buffer.
\* In the DECLARE branch (begin_count 0, found_begin false) an END counts
\* only after the first BEGIN; the BEGIN branch starts with begin_count 1.
RECURSIVE MatchingEnd(_, _, _, _)
MatchingEnd(text, j, begin_count, found_begin) ==
    IF j >= Len(text) THEN 0 - 1
    ELSE IF has_keyword_at(text, j, kwBEGIN)
           THEN MatchingEnd(text, j + 5, begin_count + 1, TRUE)
    ELSE IF found_begin /\ has_keyword_at(text, j, kwEND)
           THEN IF begin_count - 1 = 0 THEN j
                ELSE MatchingEnd(text, j + 3, begin_count - 1, found_begin)
    ELSE MatchingEnd(text, j + 1, begin_count, found_begin)

\* the outer `while i < buf.len()`: the blocks found, in order.  The test
\* inside_declare of the BEGIN branch is always false, because i is never
\* below the end of a block already pushed (i = end_pos after every push).
RECURSIVE ScanBlocks(_, _, _)
ScanBlocks(buffer, i, blocks) ==
    IF i >= Len(buffer) THEN blocks
    ELSE IF has_keyword_at(buffer, i, kwDECLARE) THEN
        LET j == MatchingEnd(buffer, i + 7, 0, FALSE)
        IN  IF j < 0 THEN blocks
            ELSE ScanBlocks(buffer, EndPosAfter(buffer, j + 3),
                            Append(blocks, [s |-> i, e |-> EndPosAfter(buffer, j + 3)]))
    ELSE IF has_keyword_at(buffer, i, kwBEGIN) THEN
        LET j == MatchingEnd(buffer, i + 5, 1, TRUE)
        IN  IF j < 0 THEN blocks
            ELSE ScanBlocks(buffer, EndPosAfter(buffer, j + 3),
                            Append(blocks, [s |-> i, e |-> EndPosAfter(buffer, j + 3)]))
    ELSE ScanBlocks(buffer, i + 1, blocks)

\* for &(start, end) in &blocks: the first block with start <= pos < end
find_enclosing_block(buffer, pos) ==
    LET blocks == ScanBlocks(buffer, 0, <<>>)
        hits   == {k \in DOMAIN blocks : pos >= blocks[k].s /\ pos < blocks[k].e}
    IN  IF hits = {} THEN NoSpan
        ELSE blocks[CHOOSE k \in hits : \A m \in hits : k <= m]

(***************************************************************************)
(* is_block_containing_ddl and find_ddl_with_block_end.                    *)
(***************************************************************************)
DdlPrefixes ==
    { <<"C","R","E","A","T","E"," ","P","R","O","C","E","D","U","R","E">>,
      <<"C","R","E","A","T","E"," ","O","R"," ","R","E","P","L","A","C","E"," ","P","R","O","C","E","D","U","R","E">>,
      <<"C","R","E","A","T","E"," ","F","U","N","C","T","I","O","N">>,
      <<"C","R","E","A","T","E"," ","O","R"," ","R","E","P","L","A","C","E"," ","F","U","N","C","T","I","O","N">>,
      kwCREATE_TASK,
      <<"C","R","E","A","T","E"," ","O","R"," ","R","E","P","L","A","C","E"," ","T","A","S","K">> }

\* is_block_containing_ddl(&text[i..])
is_block_containing_ddl(text, i) ==
    \E w \in DdlPrefixes : StartsWithTrimmed(text, i, w)

\* the chunk tests of find_ddl_with_block_end: text[i..i+n] is the keyword,
\* with no alphanumeric byte before or after
ddl_keyword_at(text, i, keyword) ==
    /\ i + Len(keyword) <= Len(text)
    /\ EqIgnoreCaseAt(text, i, keyword)
    /\ (i = 0 \/ ~IsAlnum(At(text, i - 1)))
    /\ (i + Len(keyword) >= Len(text) \/ ~IsAlnum(At(text, i + Len(keyword))))

\* the AS test: text[i..].trim_start() begins with AS and the byte after it
\* is not alphanumeric
as_word_at(text, i) ==
    LET p == SkipWs(text, i)
    IN  /\ i + 2 <= Len(text)
        /\ p + 2 <= Len(text)
        /\ EqIgnoreCaseAt(text, p, kwAS)
        /\ (p + 2 = Len(text) \/ ~IsAlnum(At(text, p + 2)))

BodyAt(f, i, st) == [found |-> f, i |-> i, state |-> st]

\* after DECLARE: the loop that looks for the BEGIN
RECURSIVE DdlFindBegin(_, _, _)
DdlFindBegin(text, i, state) ==
    IF i >= Len(text) THEN BodyAt(FALSE, i, state)
    ELSE LET r == step(text, i, state)
         IN  IF r.state = "Normal" /\ ddl_keyword_at(text, i, kwBEGIN)
               THEN BodyAt(TRUE, i + 5, r.state)
               ELSE DdlFindBegin(text, r.next, r.state)

\* the first loop ("Skip to AS keyword"): found means begin_count = 1
RECURSIVE DdlSkipToBody(_, _, _, _)
DdlSkipToBody(text, i, state, in_as_clause) ==
    IF i >= Len(text) THEN BodyAt(FALSE, i, state)
    ELSE LET r == step(text, i, state)
         IN  IF r.state = "Normal" /\ as_word_at(text, i)
               THEN DdlSkipToBody(text, r.next, r.state, TRUE)
             ELSE IF in_as_clause /\ r.state = "Normal" /\ ddl_keyword_at(text, i, kwBEGIN)
               THEN BodyAt(TRUE, i + 5, r.state)
             ELSE IF in_as_clause /\ r.state = "Normal" /\ ddl_keyword_at(text, i, kwDECLARE)
               THEN DdlFindBegin(text, i + 7, r.state)
             ELSE DdlSkipToBody(text, r.next, r.state, in_as_clause)

\* the second loop ("find the matching END"): the end offset, or -1 for None
RECURSIVE DdlMatchEnd(_, _, _, _)
DdlMatchEnd(text, i, state, begin_count) ==
    IF i >= Len(text) \/ begin_count <= 0 THEN 0 - 1
    ELSE LET r == step(text, i, state)
         IN  IF r.state = "Normal" /\ ddl_keyword_at(text, i, kwBEGIN)
               THEN DdlMatchEnd(text, i + 5, r.state, begin_count + 1)
             ELSE IF r.state = "Normal" /\ ddl_keyword_at(text, i, kwEND)
               THEN IF begin_count - 1 = 0
                      THEN EndPosAfter(text, i + 3)
                      ELSE DdlMatchEnd(text, i + 3, r.state, begin_count - 1)
             ELSE DdlMatchEnd(text, r.next, r.state, begin_count)

\* Option<usize>: -1 stands for None
find_ddl_with_block_end(text, start) ==
    LET b == DdlSkipToBody(text, start, "Normal", FALSE)
    IN  IF ~b.found THEN 0 - 1 ELSE DdlMatchEnd(text, b.i, b.state, 1)

(***************************************************************************)
(* split_sql and statement_at_caret.  A statement is the span [s, e) of    *)
(* the trimmed text in the input.                                          *)
(***************************************************************************)
PushAlways(stmts, sp) == Append(stmts, sp)
Push(stmts, sp) == IF IsEmptySpan(sp) THEN stmts ELSE Append(stmts, sp)

\* the test that guards find_enclosing_block in split_sql
looks_like_block(text, i) ==
    \/ StartsWithTrimmed(text, i, kwDECLARE)
    \/ /\ StartsWithTrimmed(text, i, kwBEGIN)
       /\ ~ContainsFrom(text, i, kwTRANSACTION)

\* one pass through the body of `loop`: the loop variables afterwards, the
\* statement offered to stmts (push says whether the pass reaches a push at
\* all) and whether the pass ends at `break`
SplitPass(d, st, n, b, p, sp) ==
    [done |-> d, state |-> st, i |-> n, start |-> b, push |-> p, stmt |-> sp]

SplitBody(text, state, i, start) ==
    LET at_start == state = "Normal" /\ i = start
        ddl_end  == IF at_start /\ is_block_containing_ddl(text, i)
                      THEN find_ddl_with_block_end(text, i) ELSE 0 - 1
        block    == IF at_start /\ ddl_end < 0 /\ looks_like_block(text, i)
                      THEN find_enclosing_block(text, i) ELSE NoSpan
    IN  IF ddl_end >= 0
          THEN SplitPass(FALSE, state, SkipWs(text, ddl_end), SkipWs(text, ddl_end),
                         TRUE, Trim(text, i, ddl_end))
        ELSE IF IsSome(block)
          THEN SplitPass(FALSE, state, SkipWs(text, block.e), SkipWs(text, block.e),
                         TRUE, Trim(text, block.s, block.e))
        ELSE LET r == step(text, i, state)
             IN  CASE r.what = "Semi" ->
                        SplitPass(FALSE, r.state, r.next, r.next, TRUE, Trim(text, start, i))
                   [] r.what = "Advance" ->
                        SplitPass(FALSE, r.state, r.next, start, FALSE, NoSpan)
                   [] r.what = "Eof" ->
                        SplitPass(TRUE, r.state, r.next, start, TRUE, Trim(text, start, Len(text)))

\* after the pass b: break with the statements, or go round again
RECURSIVE SplitLoop(_, _, _, _, _)
SplitAfter(text, b, stmts) ==
    IF b.done THEN (IF b.push THEN Push(stmts, b.stmt) ELSE stmts)
    ELSE SplitLoop(text, b.state, b.i, b.start, IF b.push THEN Push(stmts, b.stmt) ELSE stmts)

SplitLoop(text, state, i, start, stmts) ==
    SplitAfter(text, SplitBody(text, state, i, start), stmts)

split_sql(text) == SplitLoop(text, "Normal", 0, 0, <<>>)

\* Option<String>
None == [some |-> FALSE, s |-> 0, e |-> 0]
SomeIfNotEmpty(sp) == IF IsEmptySpan(sp) THEN None ELSE [some |-> TRUE, s |-> sp.s, e |-> sp.e]

\* one pass through the body of `loop`: either the value returned, or the
\* loop variables for the next pass
CaretPass(d, res, st, n, b) == [done |-> d, result |-> res, state |-> st, i |-> n, stmt_start |-> b]

CaretBody(buffer, pos, state, i, stmt_start) ==
    LET at_start == i = stmt_start /\ state = "Normal"
        ddl_end  == IF at_start /\ is_block_containing_ddl(buffer, i)
                      THEN find_ddl_with_block_end(buffer, i) ELSE 0 - 1
        block    == IF at_start /\ ddl_end < 0
                      THEN find_enclosing_block(buffer, i) ELSE NoSpan
    IN  IF ddl_end >= 0
          THEN IF pos >= i /\ pos <= ddl_end
                 THEN CaretPass(TRUE, SomeIfNotEmpty(Trim(buffer, i, ddl_end)), state, i, stmt_start)
                 ELSE CaretPass(FALSE, None, state, SkipWs(buffer, ddl_end), SkipWs(buffer, ddl_end))
        ELSE IF IsSome(block)
          THEN IF pos >= block.s /\ pos <= block.e
                 THEN CaretPass(TRUE, SomeIfNotEmpty(Trim(buffer, block.s, block.e)), state, i, stmt_start)
                 ELSE CaretPass(FALSE, None, state, SkipWs(buffer, block.e), SkipWs(buffer, block.e))
        ELSE LET r == step(buffer, i, state)
             IN  IF r.what \in {"Semi", "Eof"} /\ pos >= stmt_start /\ pos < r.next
                   THEN CaretPass(TRUE, SomeIfNotEmpty(Trim(buffer, stmt_start, r.next)),
                                  r.state, i, stmt_start)
                 ELSE IF r.what = "Eof" THEN CaretPass(TRUE, None, r.state, i, stmt_start)
                 ELSE CaretPass(FALSE, None, r.state, r.next,
                                IF r.what = "Semi" THEN r.next ELSE stmt_start)

\* after the pass b: return its result, or go round again
RECURSIVE CaretLoop(_, _, _, _, _)
CaretAfter(buffer, pos, b) ==
    IF b.done THEN b.result ELSE CaretLoop(buffer, pos, b.state, b.i, b.stmt_start)

CaretLoop(buffer, pos, state, i, stmt_start) ==
    CaretAfter(buffer, pos, CaretBody(buffer, pos, state, i, stmt_start))

statement_at_caret(buffer, pos) == CaretLoop(buffer, pos, "Normal", 0, 0)

(***************************************************************************)
(* Panics.  The buffer is a str: slicing it at an offset that is not a     *)
(* character boundary panics.  Utf8Lead, Utf8Cont are the two bytes of a   *)
(* two-byte character (U+00E9).  The offsets split_sql and                 *)
(* statement_at_caret slice at themselves (start, i at a semicolon, the    *)
(* end of a block) always follow an ASCII byte; the slices of the block    *)
(* detectors are taken at every offset their scans visit.                  *)
(***************************************************************************)
Utf8Lead == "c3"
Utf8Cont == "a9"

\* str::is_char_boundary
is_char_boundary(text, index) ==
    \/ index = 0
    \/ index = Len(text)
    \/ index < Len(text) /\ At(text, index) # Utf8Cont

\* &text[pos..pos + keyword.len()], reached when pos + keyword.len() <= len
kw_panics(text, pos, keyword) ==
    /\ pos + Len(keyword) <= Len(text)
    /\ \/ ~is_char_boundary(text, pos)
       \/ ~is_char_boundary(text, pos + Len(keyword))

\* find_enclosing_block, inner loops: does a has_keyword_at call panic
RECURSIVE MatchingEndPanics(_, _, _, _)
MatchingEndPanics(text, j, begin_count, found_begin) ==
    IF j >= Len(text) THEN FALSE
    ELSE IF kw_panics(text, j, kwBEGIN) THEN TRUE
    ELSE IF has_keyword_at(text, j, kwBEGIN)
           THEN MatchingEndPanics(text, j + 5, begin_count + 1, TRUE)
    ELSE IF found_begin /\ kw_panics(text, j, kwEND) THEN TRUE
    ELSE IF found_begin /\ has_keyword_at(text, j, kwEND)
           THEN IF begin_count - 1 = 0 THEN FALSE
                ELSE MatchingEndPanics(text, j + 3, begin_count - 1, found_begin)
    ELSE MatchingEndPanics(text, j + 1, begin_count, found_begin)

\* find_enclosing_block, outer loop
RECURSIVE ScanBlocksPanics(_, _)
ScanBlocksPanics(buffer, i) ==
    IF i >= Len(buffer) THEN FALSE
    ELSE IF kw_panics(buffer, i, kwDECLARE) THEN TRUE
    ELSE IF has_keyword_at(buffer, i, kwDECLARE) THEN
        LET j == MatchingEnd(buffer, i + 7, 0, FALSE)
        IN  \/ MatchingEndPanics(buffer, i + 7, 0, FALSE)
            \/ j >= 0 /\ ScanBlocksPanics(buffer, EndPosAfter(buffer, j + 3))
    ELSE IF kw_panics(buffer, i, kwBEGIN) THEN TRUE
    ELSE IF has_keyword_at(buffer, i, kwBEGIN) THEN
        LET j == MatchingEnd(buffer, i + 5, 1, TRUE)
        IN  \/ MatchingEndPanics(buffer, i + 5, 1, TRUE)
            \/ j >= 0 /\ ScanBlocksPanics(buffer, EndPosAfter(buffer, j + 3))
    ELSE ScanBlocksPanics(buffer, i + 1)

\* the scan covers the whole buffer, whatever pos is
find_enclosing_block_panics(buffer) == ScanBlocksPanics(buffer, 0)

\* find_ddl_with_block_end: &text[i..] and word[..2] of the AS test
as_panics(text, i) ==
    /\ i + 2 <= Len(text)
    /\ \/ ~is_char_boundary(text, i)
       \/ LET p == SkipWs(text, i)
          IN  p + 2 <= Len(text) /\ ~is_char_boundary(text, p + 2)

RECURSIVE DdlFindBeginPanics(_, _, _)
DdlFindBeginPanics(text, i, state) ==
    IF i >= Len(text) THEN FALSE
    ELSE LET r == step(text, i, state)
         IN  IF r.state = "Normal" /\ kw_panics(text, i, kwBEGIN) THEN TRUE
             ELSE IF r.state = "Normal" /\ ddl_keyword_at(text, i, kwBEGIN) THEN FALSE
             ELSE DdlFindBeginPanics(text, r.next, r.state)

RECURSIVE DdlSkipToBodyPanics(_, _, _, _)
DdlSkipToBodyPanics(text, i, state, in_as_clause) ==
    IF i >= Len(text) THEN FALSE
    ELSE LET r == step(text, i, state)
         IN  IF r.state = "Normal" /\ as_panics(text, i) THEN TRUE
             ELSE IF r.state = "Normal" /\ as_word_at(text, i)
               THEN DdlSkipToBodyPanics(text, r.next, r.state, TRUE)
             ELSE IF in_as_clause /\ r.state = "Normal" /\ kw_panics(text, i, kwBEGIN) THEN TRUE
             ELSE IF in_as_clause /\ r.state = "Normal" /\ ddl_keyword_at(text, i, kwBEGIN)
               THEN FALSE
             ELSE IF in_as_clause /\ r.state = "Normal" /\ kw_panics(text, i, kwDECLARE) THEN TRUE
             ELSE IF in_as_clause /\ r.state = "Normal" /\ ddl_keyword_at(text, i, kwDECLARE)
               THEN DdlFindBeginPanics(text, i + 7, r.state)
             ELSE DdlSkipToBodyPanics(text, r.next, r.state, in_as_clause)

RECURSIVE DdlMatchEndPanics(_, _, _, _)
DdlMatchEndPanics(text, i, state, begin_count) ==
    IF i >= Len(text) \/ begin_count <= 0 THEN FALSE
    ELSE LET r == step(text, i, state)
         IN  IF r.state = "Normal" /\ kw_panics(text, i, kwBEGIN) THEN TRUE
             ELSE IF r.state = "Normal" /\ ddl_keyword_at(text, i, kwBEGIN)
               THEN DdlMatchEndPanics(text, i + 5, r.state, begin_count + 1)
             ELSE IF r.state = "Normal" /\ kw_panics(text, i, kwEND) THEN TRUE
             ELSE IF r.state = "Normal" /\ ddl_keyword_at(text, i, kwEND)
               THEN IF begin_count - 1 = 0 THEN FALSE
                    ELSE DdlMatchEndPanics(text, i + 3, r.state, begin_count - 1)
             ELSE DdlMatchEndPanics(text, r.next, r.state, begin_count)

\* the second loop runs from where the first loop found the body
ddl_match_end_panics(text, b) == b.found /\ DdlMatchEndPanics(text, b.i, b.state, 1)

find_ddl_with_block_end_panics(text, start) ==
    \/ DdlSkipToBodyPanics(text, start, "Normal", FALSE)
    \/ ddl_match_end_panics(text, DdlSkipToBody(text, start, "Normal", FALSE))

\* the detector calls of one pass of split_sql (guarded: find_enclosing_block
\* is called only behind looks_like_block) or of statement_at_caret
pass_panics(text, state, i, start, guarded) ==
    /\ state = "Normal" /\ i = start
    /\ \/ is_block_containing_ddl(text, i) /\ find_ddl_with_block_end_panics(text, i)
       \/ /\ ~(is_block_containing_ddl(text, i) /\ find_ddl_with_block_end(text, i) >= 0)
          /\ guarded => looks_like_block(text, i)
          /\ find_enclosing_block_panics(text)

RECURSIVE split_sql_panics_from(_, _, _, _)
split_sql_panics_after(text, b) ==
    ~b.done /\ split_sql_panics_from(text, b.state, b.i, b.start)

split_sql_panics_from(text, state, i, start) ==
    \/ pass_panics(text, state, i, start, TRUE)
    \/ split_sql_panics_after(text, SplitBody(text, state, i, start))

\* every offset of a text without a continuation byte is a boundary
has_multibyte(text) == \E k \in DOMAIN text : text[k] = Utf8Cont

split_sql_panics(text) ==
    has_multibyte(text) /\ split_sql_panics_from(text, "Normal", 0, 0)

RECURSIVE statement_at_caret_panics_from(_, _, _, _, _)
statement_at_caret_panics_after(buffer, pos, b) ==
    ~b.done /\ statement_at_caret_panics_from(buffer, pos, b.state, b.i, b.stmt_start)

statement_at_caret_panics_from(buffer, pos, state, i, stmt_start) ==
    \/ pass_panics(buffer, state, i, stmt_start, FALSE)
    \/ statement_at_caret_panics_after(buffer, pos,
                                       CaretBody(buffer, pos, state, i, stmt_start))

statement_at_caret_panics(buffer, pos) ==
    has_multibyte(buffer) /\ statement_at_caret_panics_from(buffer, pos, "Normal", 0, 0)

(***************************************************************************)
(* Part II.  The editor buffer: a text built from at most MaxUnits of the  *)
(* units below (statements, blocks, DDL, quoted and commented semicolons). *)
(***************************************************************************)
Units == <<
    \* x;
    <<"x", ";">>,
    \* x;\n
    <<"x", ";", "\n">>,
    \* y
    <<"y">>,
    \*  
    <<" ">>,
    \* BEGIN x;END;
    <<"B", "E", "G", "I", "N", " ", "x", ";", "E", "N", "D", ";">>,
    \* BEGIN BEGIN x;END;END;
    <<"B", "E", "G", "I", "N", " ", "B", "E", "G", "I", "N", " ", "x", ";", "E", "N", "D", ";", "E", "N", "D", ";">>,
    \* DECLARE y;BEGIN x;END;
    <<"D", "E", "C", "L", "A", "R", "E", " ", "y", ";", "B", "E", "G", "I", "N", " ", "x", ";", "E", "N", "D", ";">>,
    \* BEGIN TRANSACTION;
    <<"B", "E", "G", "I", "N", " ", "T", "R", "A", "N", "S", "A", "C", "T", "I", "O", "N", ";">>,
    \* CREATE TASK t AS BEGIN x;END;
    <<"C", "R", "E", "A", "T", "E", " ", "T", "A", "S", "K", " ", "t", " ", "A", "S", " ", "B", "E", "G", "I", "N", " ", "x", ";", "E", "N", "D", ";">>,
    \* CREATE TASK t AS x;
    <<"C", "R", "E", "A", "T", "E", " ", "T", "A", "S", "K", " ", "t", " ", "A", "S", " ", "x", ";">>,
    \* CREATE TASK t AS 
    <<"C", "R", "E", "A", "T", "E", " ", "T", "A", "S", "K", " ", "t", " ", "A", "S", " ">>,
    \* ';'
    <<"'", ";", "'">>,
    \* --;\n
    <<"-", "-", ";", "\n">>,
    \* /*;*/
    <<"/", "*", ";", "*", "/">>,
    \* $$;$$
    <<"$", "$", ";", "$", "$">>,
    \* \";\"
    <<"\"", ";", "\"">>,
    \* BEGIN 'END';END;
    <<"B", "E", "G", "I", "N", " ", "'", "E", "N", "D", "'", ";", "E", "N", "D", ";">>,
    \* BEGIN END_x;END;
    <<"B", "E", "G", "I", "N", " ", "E", "N", "D", "_", "x", ";", "E", "N", "D", ";">>,
    \* 'TRANSACTION'
    <<"'", "T", "R", "A", "N", "S", "A", "C", "T", "I", "O", "N", "'">>,
    \* begin x;end
    <<"b", "e", "g", "i", "n", " ", "x", ";", "e", "n", "d">>,
    \* '
    <<"'">>,
    \* END;
    <<"E", "N", "D", ";">>,
    \* a two-byte character
    <<Utf8Lead, Utf8Cont>>
>>

InitSeg ==
    /\ wpc = "connecting"
    /\ reqQ = <<>>
    /\ respQ = <<>>
    /\ slot = 0
    /\ wBatch = NoBatch
    /\ wIdx = 0
    /\ liveStmt = 0
    /\ nextHandle = 1
    /\ cancelHit = FALSE
    /\ guard = "none"
    /\ uiPc = "idle"
    /\ status_message = "none"
    /\ running = FALSE
    /\ total_queries = 0
    /\ tabs = <<>>
    /\ error = "none"
    /\ connected = FALSE
    /\ runs = 0
    /\ cancels = 0
    /\ emitted = <<>>
    /\ lastStarted = [index |-> 0, ntabs |-> 0, seen |-> FALSE]
    /\ lastCancel = NoCancel
    /\ BatchIdle
    /\ SegIdle

\* the user types (or pastes) one more unit at the end of the buffer
AppendUnit(u) ==
    /\ segPc = "build"
    /\ nunits < MaxUnits
    /\ buf' = buf \o Units[u]
    /\ nunits' = nunits + 1
    /\ UNCHANGED <<segPc, caret, splitOut, caretOut, scanVars, execVars>>
    /\ UNCHANGED <<workerVars, uiVars, histVars, batchVars>>

\* split_sql(&buffer): returns the statements, or panics
RunSplit ==
    /\ segPc = "build"
    /\ IF split_sql_panics(buf)
         THEN segPc' = "panicked" /\ UNCHANGED splitOut
         ELSE segPc' = "split" /\ splitOut' = split_sql(buf)
    /\ UNCHANGED <<buf, nunits, caret, caretOut, scanVars, execVars>>
    /\ UNCHANGED <<workerVars, uiVars, histVars, batchVars>>

\* statement_at_caret(&buffer, c) for a caret in the buffer or at its end:
\* returns the Option, or panics
RunCaret(c) ==
    /\ segPc = "split"
    /\ caret' = c
    /\ IF statement_at_caret_panics(buf, c)
         THEN segPc' = "panicked" /\ UNCHANGED caretOut
         ELSE segPc' = "caret" /\ caretOut' = statement_at_caret(buf, c)
    /\ UNCHANGED <<buf, nunits, splitOut, scanVars, execVars>>
    /\ UNCHANGED <<workerVars, uiVars, histVars, batchVars>>

NextSeg ==
    \/ \E u \in DOMAIN Units : AppendUnit(u)
    \/ RunSplit
    \/ \E c \in 0..Len(buf) : RunCaret(c)

SpecSeg == InitSeg /\ [][NextSeg]_vars

(***************************************************************************)
(* Part III.  The scanner alone: step on every byte string of at most      *)
(* MaxLen bytes over StepAlphabet, from every offset up to one past the    *)
(* end and every ParseState, then on from where the call before left off.  *)
(***************************************************************************)
StepAlphabet == {"'", "\"", "\\", "/", "*", "-", "$", ";", "\n", "x"}

ByteStrings == UNION {[1..n -> StepAlphabet] : n \in 0..MaxLen}

InitStep ==
    /\ wpc = "connecting"
    /\ reqQ = <<>>
    /\ respQ = <<>>
    /\ slot = 0
    /\ wBatch = NoBatch
    /\ wIdx = 0
    /\ liveStmt = 0
    /\ nextHandle = 1
    /\ cancelHit = FALSE
    /\ guard = "none"
    /\ uiPc = "idle"
    /\ status_message = "none"
    /\ running = FALSE
    /\ total_queries = 0
    /\ tabs = <<>>
    /\ error = "none"
    /\ connected = FALSE
    /\ runs = 0
    /\ cancels = 0
    /\ emitted = <<>>
    /\ lastStarted = [index |-> 0, ntabs |-> 0, seen |-> FALSE]
    /\ lastCancel = NoCancel
    /\ BatchIdle
    /\ buf \in ByteStrings
    /\ nunits = 0
    /\ segPc = "scan"
    /\ caret = 0
    /\ splitOut = <<>>
    /\ caretOut = None
    /\ scanI \in 0..(Len(buf) + 1)
    /\ scanState \in ParseStates
    /\ scanOut = NoStep
    /\ selection = NoSelection
    /\ queries = <<>>

\* let (next, what) = step(bytes, i, &mut state); i = next
Scan ==
    /\ segPc = "scan"
    /\ scanOut.what # "Eof"
    /\ LET r == step(buf, scanI, scanState)
       IN  /\ scanOut' = [i |-> scanI, entry |-> scanState,
                          next |-> r.next, what |-> r.what, state |-> r.state]
           /\ scanI' = r.next
           /\ scanState' = r.state
    /\ UNCHANGED <<buf, nunits, segPc, caret, splitOut, caretOut, execVars>>
    /\ UNCHANGED <<workerVars, uiVars, histVars, batchVars>>

NextStep == Scan

SpecStep == InitStep /\ [][NextStep]_vars

(***************************************************************************)
(* Part IV.  queries_for_execution: what Ctrl+Enter hands to the worker,   *)
(* from the editor's buffer, selection and caret.  The buffer is built     *)
(* from the units ExecUnits.                                               *)
(***************************************************************************)
\* &text[a..b]
Slice(text, a, b) == SubSeq(text, a + 1, b)

\* Editor::selection_range: the selection as an ordered range
selection_range(sel) ==
    [some  |-> sel.some,
     start |-> IF sel.a < sel.b THEN sel.a ELSE sel.b,
     end   |-> IF sel.a < sel.b THEN sel.b ELSE sel.a]

\* .collect(): the statements split_sql yields, as Strings
Collect(text, stmts) == [k \in DOMAIN stmts |-> Slice(text, stmts[k].s, stmts[k].e)]

\* Self::split_sql(&text).collect()
split_sql_collect(text) == Collect(text, split_sql(text))

\* the text handed to split_sql: the selected range when it is not empty,
\* else what statement_at_caret(buf, caret) returns
execution_text(buffer, r, c) ==
    IF r.some /\ r.start # r.end
      THEN [some |-> TRUE, s |-> r.start, e |-> r.end]
      ELSE statement_at_caret(buffer, c)

\* the text itself: &buffer[r], or the String statement_at_caret returned
text_of(buffer, t) == IF t.some THEN Slice(buffer, t.s, t.e) ELSE <<>>

\* return Self::split_sql(..).collect(), or Vec::new() when there is no text
queries_of(t, text) == IF t.some THEN split_sql_collect(text) ELSE <<>>

\* does one of the calls queries_for_execution makes panic: the slice
\* &buffer[r] or statement_at_caret,
execution_text_panics(buffer, r, c) ==
    IF r.some /\ r.start # r.end
      THEN ~is_char_boundary(buffer, r.start) \/ ~is_char_boundary(buffer, r.end)
      ELSE statement_at_caret_panics(buffer, c)

\* or split_sql on the text
queries_of_panics(t, text) == t.some /\ split_sql_panics(text)

\* the texts the buffers of this part are built from: simple statements,
\* blank, a block, BEGIN TRANSACTION, a DECLARE block, a DDL with a block, a
\* quoted and a commented semicolon, END;, a two-byte character, and a
\* statement of several bytes
ExecUnits == {1, 2, 3, 4, 5, 7, 8, 9, 12, 13, 22, 23}
ExecTexts ==
    {Units[u] : u \in ExecUnits} \cup {<<"S", "E", "L", "E", "C", "T", " ", "1", ";">>}

\* the user types (or pastes) one more text at the end of the buffer
TypeText(t) ==
    /\ segPc = "build"
    /\ nunits < MaxUnits
    /\ buf' = buf \o t
    /\ nunits' = nunits + 1
    /\ UNCHANGED <<segPc, caret, splitOut, caretOut, scanVars, execVars>>
    /\ UNCHANGED <<workerVars, uiVars, histVars, batchVars>>

\* the selections the editor can hold with the caret at c: none, empty,
\* from the start of the buffer to the caret, from the end back to the caret
Selections(buffer, c) ==
    {NoSelection} \cup {[some |-> TRUE, a |-> a, b |-> c] : a \in {0, c, Len(buffer)}}

\* queries_for_execution(&self): returns the Vec, or panics.  t is the text
\* chosen (selection or caret statement) as a range of the buffer;
\* first_panics: the slice or statement_at_caret panics; split_panics:
\* split_sql panics on the text
RunQueriesForExecution(sel, c) ==
    /\ segPc = "build"
    /\ is_char_boundary(buf, c)
    /\ caret' = c
    /\ selection' = sel
    /\ \E t \in {execution_text(buf, selection_range(sel), c)} :
       \E text \in {text_of(buf, t)} :
       \E first_panics \in {execution_text_panics(buf, selection_range(sel), c)} :
       \E split_panics \in {queries_of_panics(t, text)} :
          IF first_panics \/ split_panics
            THEN segPc' = "panicked" /\ UNCHANGED queries
            ELSE segPc' = "queries" /\ queries' = queries_of(t, text)
    /\ UNCHANGED <<buf, nunits, splitOut, caretOut, scanVars>>
    /\ UNCHANGED <<workerVars, uiVars, histVars, batchVars>>

NextExec ==
    \/ \E t \in ExecTexts : TypeText(t)
    \/ \E c \in 0..Len(buf) : \E sel \in Selections(buf, c) : RunQueriesForExecution(sel, c)

SpecExec == InitSeg /\ [][NextExec]_vars

(***************************************************************************)
(* Part V.  run_batch_mode: the worker thread of Part I with the batch     *)
(* driver as its coordinator.  The driver sends one RunQueries with all    *)
(* the statements of the file right after start_db_worker, then counts     *)
(* responses.  There is no Workspace: uiPc is "batch" until the function   *)
(* returns, and "gone" afterwards.                                         *)
(***************************************************************************)
InitBatch ==
    /\ wpc = "connecting"
    /\ respQ = <<>>
    /\ slot = 0
    /\ wBatch = NoBatch
    /\ wIdx = 0
    /\ liveStmt = 0
    /\ nextHandle = 1
    /\ cancelHit = FALSE
    /\ guard = "none"
    /\ uiPc = "batch"
    /\ status_message = "none"
    /\ running = FALSE
    /\ total_queries = 0
    /\ tabs = <<>>
    /\ error = "none"
    /\ connected = FALSE
    /\ runs = 1
    /\ cancels = 0
    /\ emitted = <<>>
    /\ lastStarted = [index |-> 0, ntabs |-> 0, seen |-> FALSE]
    /\ lastCancel = NoCancel
    /\ SegIdle
    /\ batchPc = "recv"
    /\ exit_on_error \in BOOLEAN
    /\ batch_total \in 1..MaxBatch
    /\ reqQ = <<RunQueries(1, batch_total)>>
    /\ results_count = 0
    /\ errors_count = 0

\* return from run_batch_mode: the function's locals, the request sender
\* among them, are dropped
BatchReturn(how, sendQuit) ==
    /\ batchPc' = how
    /\ uiPc' = "gone"
    /\ reqQ' = IF sendQuit THEN Append(reqQ, Quit) ELSE reqQ

\* the loop condition `results_count + errors_count < total_queries` after
\* a response was counted: go round again, or leave the loop, send Quit and
\* return Ok(())
BatchLoopOrFinish(results, errors) ==
    IF results + errors < batch_total
      THEN UNCHANGED <<batchPc, uiPc, reqQ>>
      ELSE BatchReturn("ok", TRUE)

\* one pass of the receive loop in which recv_timeout returns a response
BatchRecv ==
    /\ batchPc = "recv"
    /\ respQ # <<>>
    /\ respQ' = Tail(respQ)
    /\ LET m == Head(respQ) IN
       \/ /\ m.type \in {"Connected", "QueryStarted"}
          /\ UNCHANGED <<batchPc, uiPc, reqQ, results_count, errors_count>>
       \/ \* QueryFinished: counted; the result is saved or kept
          /\ m.type = "QueryFinished"
          /\ results_count' = results_count + 1
          /\ UNCHANGED errors_count
          /\ \/ BatchLoopOrFinish(results_count + 1, errors_count)
             \/ \* save_result failed and exit_on_error is set: return Err(e)
                /\ exit_on_error
                /\ BatchReturn("failed", FALSE)
       \/ \* QueryError: counted; return Err if exit_on_error is set
          /\ m.type = "QueryError"
          /\ errors_count' = errors_count + 1
          /\ UNCHANGED results_count
          /\ IF exit_on_error
               THEN BatchReturn("failed", FALSE)
               ELSE BatchLoopOrFinish(results_count, errors_count + 1)
    /\ UNCHANGED <<exit_on_error, batch_total>>
    /\ UNCHANGED <<wpc, slot, wBatch, wIdx, liveStmt, nextHandle, cancelHit, guard>>
    /\ UNCHANGED <<status_message, running, total_queries, tabs, error, connected, runs, cancels>>
    /\ UNCHANGED <<histVars, segVars>>

\* the worker thread will send nothing more: it waits in recv() on the
\* empty request channel, or it is in a loop that never responds, or it ended
WorkerSilentForGood ==
    \/ wpc \in {"degraded", "panicked", "exited"}
    \/ wpc = "recv" /\ reqQ = <<>>

\* recv_timeout(300 s) returns Err: the function returns Err("Query
\* execution timeout").  The 300 seconds are taken to elapse only when no
\* response can come any more; every native call returns in time.
BatchTimeout ==
    /\ batchPc = "recv"
    /\ respQ = <<>>
    /\ WorkerSilentForGood
    /\ BatchReturn("timeout", FALSE)
    /\ UNCHANGED <<exit_on_error, batch_total, results_count, errors_count>>
    /\ UNCHANGED <<wpc, respQ, slot, wBatch, wIdx, liveStmt, nextHandle, cancelHit, guard>>
    /\ UNCHANGED <<status_message, running, total_queries, tabs, error, connected, runs, cancels>>
    /\ UNCHANGED <<histVars, segVars>>

NextBatch == Worker \/ BatchRecv \/ BatchTimeout

SpecBatch == InitBatch /\ [][NextBatch]_vars

(***************************************************************************)
(* Part I.  Properties of the worker protocol.                             *)
(***************************************************************************)
Positions == DOMAIN emitted

\* C1: within one RunQueries batch, once the worker has emitted QueryError for
\* index K it emits no further response with an index greater than K,
\* whatever made the statement fail.
CE_C1_NothingAfterError ==
    \A p, q \in Positions :
        (p < q /\ emitted[p].type = "QueryError") => emitted[q].query_idx <= emitted[p].query_idx

\* C2: the slot holds a handle only while the worker is working on one
\* statement, and it is empty whenever the worker waits on the request
\* channel or has left its loop.
CE_C2_SlotOnlyWhileExecuting ==
    /\ slot # 0 => wpc \in {"exec", "fetch", "clear"}
    /\ wpc = "recv" => slot = 0

\* C3: the responses of one batch are a prefix of Started(0), T(0),
\* Started(1), T(1), ... with T(i) terminal for i, and a statement is in
\* execution only between its Started and its terminal response.
Thm_C3_Sequential ==
    /\ \A k \in Positions :
          IF k % 2 = 1
            THEN emitted[k].type = "QueryStarted" /\ emitted[k].query_idx = (k - 1) \div 2
            ELSE IsTerminal(emitted[k]) /\ emitted[k].query_idx = (k - 2) \div 2
    /\ wpc \in {"alloc", "exec", "fetch"} =>
          /\ Len(emitted) % 2 = 1
          /\ emitted[Len(emitted)].query_idx = wIdx

\* C3 witness: a whole batch of MaxBatch statements has been answered, the
\* first of them by an error
Wit_C3_FullBatch ==
    /\ Len(emitted) = 2 * MaxBatch
    /\ emitted[2].type = "QueryError"
    /\ emitted[2 * MaxBatch].type = "QueryFinished"

\* C4: every Started{i} is answered by a terminal response for i and the
\* worker keeps running: it never dies between a Started and its terminal
\* response, also when the pending native call is a row fetch.
CE_C4_StartedAnswered ==
    /\ wpc # "panicked"
    /\ wpc \in {"loop", "recv", "clear", "exited"} => Len(emitted) % 2 = 0

\* C5: whenever poll_db_responses processes QueryStarted{index}, index is
\* the number of tabs at that moment.
CE_C5_StartedIndexIsTabCount ==
    lastStarted.seen => lastStarted.index = lastStarted.ntabs

\* a QueryError sent on a path that ends with `break`
IsHaltingError(m) == m.type = "QueryError" /\ m.what \in {AllocMsg, ExecMsg, HY008Msg}

\* this step sends the response m'
Sends(m) == Len(emitted') = Len(emitted) + 1 /\ emitted'[Len(emitted')] = m

\* this step sends a halting error
SendsHaltingError ==
    Len(emitted') = Len(emitted) + 1 /\ IsHaltingError(emitted'[Len(emitted')])

\* this step is the worker receiving a RunQueries in its main loop
TakesRunQueries ==
    wpc = "recv" /\ reqQ # <<>> /\ Head(reqQ).type = "RunQueries" /\ reqQ' = Tail(reqQ)

\* C24: an Error that halts a batch does not halt the worker: the step that
\* sends it leaves the worker waiting on the request channel; from there the
\* next RunQueries is taken as a new batch, and the first response of a
\* batch is Started with index 0.
Thm_C24_ErrorHaltsBatchOnly ==
    [][ /\ SendsHaltingError => wpc' = "recv"
        /\ TakesRunQueries =>
              wpc' = "loop" /\ wIdx' = 0 /\ wBatch'.n = Head(reqQ).n /\ emitted' = <<>>
        /\ (wpc = "loop" /\ emitted = <<>> /\ emitted' # emitted) =>
              emitted' = <<QueryStarted(wBatch.id, 0)>> ]_vars

\* C24 witness: the worker has sent Started{0} of a batch whose predecessor
\* was halted by an Error
Wit_C24_NextBatchStarted ==
    /\ emitted = <<QueryStarted(wBatch.id, 0)>>
    /\ \E k \in DOMAIN respQ : IsHaltingError(respQ[k]) /\ respQ[k].batch + 1 = wBatch.id

\* the request the worker's recv() returns next is Quit, or recv() fails
QuitOrDropped ==
    \/ reqQ # <<>> /\ Head(reqQ).type = "Quit"
    \/ reqQ = <<>> /\ SenderDropped

\* C25, in every state: a worker whose environment or connection failed has
\* sent no response, so the channel is empty and the coordinator has seen
\* neither Connected nor a tab
DegradedIsSilent ==
    wpc = "degraded" =>
        respQ = <<>> /\ emitted = <<>> /\ ~connected /\ tabs = <<>> /\ slot = 0

\* C25, in every step: the degraded worker sends nothing, whatever request
\* it takes, never goes back to connecting or on to the main loop, and
\* leaves its loop only on Quit or when the sender is dropped
DegradedStep ==
    wpc = "degraded" =>
        /\ respQ' = respQ /\ emitted' = emitted
        /\ wpc' \in {"degraded", "exited"}
        /\ wpc' = "exited" => QuitOrDropped

\* C25: if creating the environment or the initial connection fails, the
\* worker emits no response at all for any sequence of RunQueries and
\* Cancel requests, makes no reconnection attempt, and leaves its loop only
\* on Quit or when the request sender is dropped.
Thm_C25_DegradedWorkerIsSilent ==
    [][DegradedIsSilent /\ DegradedStep]_vars

\* C25 witness: the degraded worker has taken a RunQueries and a Cancel
\* and is waiting for the next request
Wit_C25_RequestsIgnored ==
    /\ wpc = "degraded"
    /\ runs >= 1
    /\ cancels >= 1
    /\ reqQ = <<>>

\* this step is the worker's recv() returning Quit or Err, in the main loop
\* or in a degraded loop
TakesQuitOrErr == wpc \in {"recv", "degraded"} /\ QuitOrDropped /\ wpc' # wpc

\* the worker thread dies only in a row fetch, inside a batch
PanicsOnlyInFetch == (wpc' = "panicked" /\ wpc # "panicked") => wpc = "fetch"

\* C26: connected or degraded, the worker thread ends without panicking when
\* recv() returns Quit or fails because every sender is dropped, and once the
\* Workspace is gone (with or without a Quit) the thread does end, unless a
\* batch in progress never finishes because it died in a row fetch.
Thm_C26_QuitOrDropEndsWorker ==
    /\ [][(TakesQuitOrErr => wpc' = "exited") /\ PanicsOnlyInFetch]_vars
    /\ ((uiPc = "gone") ~> (wpc \in {"exited", "panicked"}))

\* C26 witness: the worker ran a batch to its end and then left its loop
\* after the Workspace was dropped
Wit_C26_ExitedAfterBatch ==
    /\ wpc = "exited"
    /\ uiPc = "gone"
    /\ emitted # <<>>
    /\ IsTerminal(emitted[Len(emitted)])

\* this step is the worker's main loop receiving a Cancel
TakesCancel ==
    wpc = "recv" /\ reqQ # <<>> /\ Head(reqQ).type = "Cancel" /\ reqQ' = Tail(reqQ)

\* C27: when the worker handles a Cancel while the slot is empty it issues
\* no native cancel call, sends no response, does not panic and goes back to
\* waiting on the request channel.
Thm_C27_CancelOnEmptySlotIsNoOp ==
    [][(TakesCancel /\ slot = 0) =>
          /\ lastCancel' = lastCancel
          /\ cancelHit' = cancelHit
          /\ respQ' = respQ
          /\ emitted' = emitted
          /\ slot' = 0
          /\ wpc' = "recv"]_vars

\* C27 witness: no native cancel call was ever issued, the one Cancel sent
\* has been taken by the worker, and the worker has answered a batch
\* submitted after it
Wit_C27_CancelIgnoredThenServed ==
    /\ cancels = 1
    /\ lastCancel = NoCancel
    /\ reqQ = <<>>
    /\ wpc = "recv"
    /\ wBatch.id = 2
    /\ emitted # <<>>

\* this step is Ctrl+Backspace taking the cancel branch with the slot empty
RequestsCancelOnEmptySlot == cancels' = cancels + 1 /\ slot = 0

\* the only cancel requested so far found the slot empty: no native cancel
\* call has been issued by anyone
OnlyCancelFoundSlotEmpty == cancels = 1 /\ lastCancel = NoCancel

\* C28: a cancel requested while the slot is empty is silently dropped.  At
\* the request nothing is cancelled, nothing is sent and the worker goes on
\* with its batch; when the worker later takes the Cancel request from the
\* channel, again nothing is cancelled and nothing is sent.
CE_C28_CancelOnEmptySlotIsDropped ==
    [][ /\ RequestsCancelOnEmptySlot =>
              /\ lastCancel' = lastCancel /\ cancelHit' = cancelHit
              /\ respQ' = respQ /\ emitted' = emitted
              /\ wpc' = wpc /\ wIdx' = wIdx /\ wBatch' = wBatch
        /\ (TakesCancel /\ OnlyCancelFoundSlotEmpty) =>
              /\ lastCancel' = NoCancel
              /\ respQ' = respQ
              /\ wpc' = "recv" ]_vars

\* this step is poll_db_responses processing the response at the head of
\* the channel
Polls == respQ # <<>> /\ respQ' = Tail(respQ)

\* C29: while polling, the coordinator clears running when it processes
\* Finished{index} with index + 1 equal to the size of the submitted batch
\* and when it processes any Error; a Finished for an earlier index leaves
\* running as it was.
Thm_C29_RunningClearedAtLastIndex ==
    [][Polls =>
          /\ (Head(respQ).type = "QueryFinished" /\ Head(respQ).query_idx + 1 = total_queries)
                => ~running'
          /\ Head(respQ).type = "QueryError" => ~running'
          /\ (Head(respQ).type = "QueryFinished" /\ Head(respQ).query_idx + 1 < total_queries)
                => running' = running]_vars

\* C29 witness: of a batch of two the coordinator has processed Started{0}
\* and Finished{0}, and running is still set
Wit_C29_StillRunningAfterFirst ==
    /\ runs = 1
    /\ cancels = 0
    /\ total_queries = 2
    /\ Len(tabs) = 1
    /\ tabs[1].content \in {"Table", "Info"}
    /\ running

\* C30: every non-empty batch submitted by start_execute eventually leaves
\* the coordinator with running = false through polling alone, in every
\* state of the worker, as long as the Workspace exists.
CE_C30_RunningEventuallyCleared ==
    (running /\ uiPc # "gone") ~> (~running \/ uiPc = "gone")

\* the worker is inside the native execute call or the row fetch of a statement
StatementExecuting == wpc \in {"exec", "fetch"}

\* what the UI thread is about to do, whatever the worker is doing: the drain
\* loop of poll_db_responses, Ctrl+Enter, Ctrl+Backspace
PollDue   == uiPc = "polling"
RunDue    == UiIdle /\ ~running /\ runs < MaxRuns
CancelDue == UiIdle /\ running /\ cancels < MaxCancels

NoStatementMsg == "No SQL statement at caret/selection."

\* the step of start_execute that finds the statement list empty
ExecutesNothing == status_message' = NoStatementMsg /\ status_message # NoStatementMsg

LastEmitted == emitted[Len(emitted)]
AnswersAllocated == IsTerminal(LastEmitted) /\ LastEmitted.what # AllocMsg
HandleOfLastStatement == nextHandle - 1

\* C34: the worker clears the slot before it emits the terminal response of
\* a statement: whenever the terminal response for index i has been emitted
\* (is in the channel or was taken from it) the slot does not hold the handle
\* of statement i.
CE_C34_SlotClearedBeforeTerminal ==
    (emitted # <<>> /\ AnswersAllocated) => slot # HandleOfLastStatement

\* poll_db_responses takes a QueryError from the channel
PollsError == uiPc' = "polling" /\ Polls /\ Head(respQ).type = "QueryError"

\* the fields of a tab that the QueryError arm does not assign
SameButContent(old, new) == new.batch = old.batch /\ new.made_for = old.made_for

\* C36: a QueryError whose message contains HY008 turns the tab at its index
\* into Info "Cancelled." and leaves the error field alone; any other
\* message turns that tab into Error and is stored in the error field.  In
\* both cases the tab's running flag and the workspace's running flag are
\* cleared and no other tab changes.
Thm_C36_CancelToldByMessage ==
    [][PollsError =>
          LET m == Head(respQ)
              i == m.query_idx + 1
          IN  /\ DOMAIN tabs' = DOMAIN tabs
              /\ \A k \in DOMAIN tabs : k # i => tabs'[k] = tabs[k]
              /\ i \in DOMAIN tabs =>
                    /\ tabs'[i].content = IF m.what = HY008Msg THEN "Cancelled." ELSE "Error"
                    /\ ~tabs'[i].running
                    /\ SameButContent(tabs[i], tabs'[i])
              /\ error' = IF m.what = HY008Msg THEN error ELSE m.what
              /\ ~running']_vars

\* C36 witness: of a batch of two the first statement finished and the
\* second was cancelled; no error is shown and the first tab is as it was
Wit_C36_SecondTabCancelled ==
    /\ Len(tabs) = 2
    /\ tabs[1].content \in {"Table", "Info"}
    /\ tabs[2].content = "Cancelled."
    /\ ~tabs[2].running
    /\ error = "none"
    /\ ~running

\* C37: every native cancel call, by the UI thread on Ctrl+Backspace or by
\* the worker on a Cancel request, is made on the handle of a statement that
\* has not been released and whose native call is in progress at that moment.
CE_C37_CancelTargetsExecutingStatement ==
    lastCancel.by # "nobody" => (lastCancel.live /\ lastCancel.executing)

\* a step in which a request leaves the channel, and one in which a request
\* is put at its end
TakesRequest == reqQ # <<>> /\ reqQ' = Tail(reqQ)
SendsRequest == Len(reqQ') = Len(reqQ) + 1 /\ SubSeq(reqQ', 1, Len(reqQ)) = reqQ

\* the worker is iterating a batch
InBatch == wpc \in {"loop", "alloc", "exec", "fetch", "clear"}

\* C38: requests are taken in the order they were sent and only between
\* batches.  The channel changes only by a send at its end or by the worker
\* taking its head while it is in recv(), after the last response of the
\* batch before; a native call in progress is cancelled only by the UI
\* thread's own call on Ctrl+Backspace, and a native cancel the worker
\* issues for a Cancel request never reaches a statement in execution.
Thm_C38_RequestsOnlyBetweenBatches ==
    [][/\ reqQ' # reqQ => (SendsRequest \/ TakesRequest)
       /\ TakesRequest =>
             /\ ~InBatch
             /\ wpc \in {"recv", "degraded"}
             /\ emitted # <<>> => IsTerminal(LastEmitted)
       /\ (cancelHit' /\ ~cancelHit) => cancels' = cancels + 1
       /\ (lastCancel' # lastCancel /\ lastCancel'.by = "worker") =>
             (TakesCancel /\ ~lastCancel'.executing)]_vars

\* C38 witness: a Cancel sent during the first statement of a batch is still
\* in the channel while the worker executes the second statement, which no
\* cancel has reached
Wit_C38_CancelWaitsForBatch ==
    /\ wpc = "exec"
    /\ wIdx = 1
    /\ reqQ # <<>>
    /\ Head(reqQ).type = "Cancel"
    /\ ~cancelHit
    /\ cancels = 1

\* the worker has a statement of a batch in execution or not yet started, or
\* a batch it has not taken from the channel yet
HasRunQueries(q) == \E k \in DOMAIN q : q[k].type = "RunQueries"
WorkerHasWork ==
    \/ wpc \in {"alloc", "exec", "fetch"}
    \/ wpc = "loop" /\ wIdx < wBatch.n
    \/ wpc = "clear" /\ wIdx + 1 < wBatch.n
    \/ HasRunQueries(reqQ)

\* the coordinator sends a RunQueries
SendsRunQueries == runs' = runs + 1

\* C39: at most one batch is in flight.  The coordinator sends a RunQueries
\* only when the worker has no statement of an earlier batch in execution
\* or still to start, after any sequence of run, cancel, role-change and
\* poll actions.
CE_C39_OneBatchInFlight ==
    [][SendsRunQueries => ~WorkerHasWork]_vars


(***************************************************************************)
(* Part II.  Properties of the segmentation.                               *)
(***************************************************************************)
Span(a, b) == [s |-> a, e |-> b]

\* the buffer is unit p followed by unit u
IsPair(p, u) == nunits = 2 /\ buf = Units[p] \o Units[u]

\* the buffer begins with unit u
BeginsWith(u) == Len(buf) >= Len(Units[u]) /\ SubSeq(buf, 1, Len(Units[u])) = Units[u]

\* the units by what they are (indices into Units)
kwCREATE == <<"C", "R", "E", "A", "T", "E">>

StartsWith(t, w) == Len(t) >= Len(w) /\ SubSeq(t, 1, Len(w)) = w

EndsWith(t, w) == Len(t) >= Len(w) /\ SubSeq(t, Len(t) - Len(w) + 1, Len(t)) = w

\* a simple statement, its semicolon and a newline
SimpleThenNewline == CHOOSE u \in DOMAIN Units : Units[u] = <<"x", ";", "\n">>

\* BEGIN ... END; and DECLARE ... BEGIN ... END; in the keywords' own case
BlockBodies ==
    {u \in DOMAIN Units :
        /\ \/ StartsWith(Units[u], kwBEGIN)
           \/ StartsWith(Units[u], kwDECLARE)
        /\ EndsWith(Units[u], kwEND \o <<";">>)}

\* the blocks whose body holds neither a quoted END nor an END_ identifier
CleanBlocks ==
    {u \in BlockBodies : \A k \in DOMAIN Units[u] : Units[u][k] \notin {"'", "_"}}

\* CREATE ... AS with a BEGIN...END body, and CREATE ... AS with no body yet
DdlWithBlock ==
    CHOOSE u \in DOMAIN Units :
        StartsWith(Units[u], kwCREATE) /\ ContainsFrom(Units[u], 0, kwBEGIN)
DdlPrefix ==
    CHOOSE u \in DOMAIN Units :
        StartsWith(Units[u], kwCREATE) /\ EndsWith(Units[u], kwAS \o <<" ">>)

\* c is the split statement a, or a together with its terminating semicolon
SameButSemicolon(a, c) ==
    /\ a.s = c.s
    /\ \/ a.e = c.e
       \/ /\ a.e < c.e
          /\ At(buf, c.e - 1) = ";"
          /\ SkipWs(buf, a.e) = c.e - 1

\* C6: the segment statement_at_caret returns is one element of
\* split_sql(buffer): the same start and the same end (here even allowing
\* the caret's segment to keep the terminating semicolon that split_sql
\* drops).
CE_C6_CaretSegmentIsSplitElement ==
    (segPc = "caret" /\ caretOut.some) =>
        \E k \in DOMAIN splitOut : SameButSemicolon(splitOut[k], caretOut)

\* C7: a standalone block or a block-containing DDL that follows an earlier
\* statement and a newline is returned as one statement.
CE_C7_BlockAfterWhitespace ==
    \A u \in CleanBlocks \cup {DdlWithBlock} :
        (segPc = "split" /\ IsPair(SimpleThenNewline, u)) =>
            splitOut = <<Span(0, 1), Span(Len(Units[SimpleThenNewline]), Len(buf))>>

\* C8: input that begins with a DECLARE or BEGIN block has that block,
\* through its END and semicolon, as its first statement; when the block is
\* the whole input it is the only statement.
CE_C8_LeadingBlockIsOneStatement ==
    \A u \in CleanBlocks :
        (segPc = "split" /\ BeginsWith(u)) =>
            /\ Len(splitOut) >= 1
            /\ splitOut[1] = Span(0, Len(Units[u]))
            /\ (Len(buf) = Len(Units[u]) => Len(splitOut) = 1)

\* C9: CREATE ... AS followed by a BEGIN...END or DECLARE...BEGIN...END body
\* is one statement that ends with the END closing the first BEGIN and its
\* semicolon, at every nesting depth.
CE_C9_DdlBodyIsOneStatement ==
    \A b \in BlockBodies :
        (segPc = "split" /\ nunits >= 2 /\ BeginsWith(DdlPrefix)
           /\ SubSeq(buf, Len(Units[DdlPrefix]) + 1, Len(buf)) = Units[b]) =>
            splitOut = <<Span(0, Len(buf))>>

\* the offsets of the semicolons the scanner reaches in Normal state when
\* run from offset 0
RECURSIVE NormalSemis(_, _, _, _)
NormalSemis(text, i, state, acc) ==
    LET r == step(text, i, state)
    IN  IF r.what = "Eof" THEN acc
        ELSE NormalSemis(text, r.next, r.state, IF r.what = "Semi" THEN Append(acc, i) ELSE acc)

\* the non-blank pieces of the text cut at the given offsets, trimmed
RECURSIVE Pieces(_, _, _, _)
Pieces(text, cuts, from, acc) ==
    IF cuts = <<>>
      THEN IF IsEmptySpan(Trim(text, from, Len(text))) THEN acc
           ELSE Append(acc, Trim(text, from, Len(text)))
      ELSE Pieces(text, Tail(cuts), Head(cuts) + 1,
                  IF IsEmptySpan(Trim(text, from, Head(cuts))) THEN acc
                  ELSE Append(acc, Trim(text, from, Head(cuts))))

HasNoBlockKeyword ==
    /\ ~ContainsFrom(buf, 0, kwBEGIN)
    /\ ~ContainsFrom(buf, 0, kwDECLARE)
    /\ ~ContainsFrom(buf, 0, kwCREATE)

PassAdvances(text, i, b) == b.done \/ (i < b.i /\ b.i <= Len(text))

\* C11: split_sql terminates on every input (each pass through its loop
\* either breaks or moves i strictly forward, never past the end, from every
\* offset and ParseState, at a statement start (start = i) or inside a
\* statement (start < i, where the pass does not look at start)), and every
\* statement it returns is non-empty and begins and ends with a byte that
\* is not whitespace.
Thm_C11_SplitTerminatesNonBlank ==
    segPc = "split" =>
        /\ \A k \in DOMAIN splitOut :
              /\ 0 <= splitOut[k].s /\ splitOut[k].s < splitOut[k].e /\ splitOut[k].e <= Len(buf)
              /\ ~IsWs(At(buf, splitOut[k].s))
              /\ ~IsWs(At(buf, splitOut[k].e - 1))
        /\ \A i \in 0..Len(buf) : \A start \in {0, i} : \A st \in ParseStates :
              PassAdvances(buf, i, SplitBody(buf, st, i, start))

\* C11 witness: a buffer that ends with a whitespace-only segment after its
\* last statement, which split_sql has discarded
Wit_C11_BlankTailDiscarded ==
    /\ segPc = "split"
    /\ Len(splitOut) >= 1
    /\ splitOut[Len(splitOut)].e < Len(buf)
    /\ IsWs(At(buf, Len(buf) - 1))

\* C12: split_sql and statement_at_caret return normally, without a
\* panic, for every buffer and every caret offset in it.
CE_C12_SegmentationIsTotal ==
    segPc # "panicked"

\* the text with every alphanumeric byte that the scanner consumes in a state
\* other than Normal (string, comment and dollar-quoted content) replaced
\* by x: the same constructs, with no keyword spelled inside any of them
RECURSIVE Masked(_, _, _, _)
Masked(text, i, state, acc) ==
    IF i >= Len(text) THEN acc
    ELSE LET r == step(text, i, state)
         IN  Masked(text, r.next, r.state,
                    acc \o [k \in 1..(r.next - i) |->
                              IF state # "Normal" /\ IsAlnum(text[i + k]) THEN "x"
                              ELSE text[i + k]])

\* C17: BEGIN, END, DECLARE and AS spelled inside a string literal, a
\* comment or a dollar-quoted body change nothing: the statements are the
\* ones of the same text with those spellings blanked out.  (Buffers that
\* mention TRANSACTION are left to C19.)
CE_C17_KeywordsOnlyInNormalState ==
    (segPc = "split" /\ ~ContainsFrom(buf, 0, kwTRANSACTION)) =>
        splitOut = split_sql(Masked(buf, 0, "Normal", <<>>))

\* C18: END is a keyword only when the characters around it are neither
\* alphanumeric nor an underscore, so no statement ends between the END of
\* an identifier such as END_x and its underscore.
CE_C18_UnderscoreIsWordCharacter ==
    segPc = "split" =>
        \A k \in DOMAIN splitOut :
            LET e == splitOut[k].e
            IN  ~(/\ e >= 3
                  /\ e < Len(buf)
                  /\ At(buf, e) = "_"
                  /\ EqIgnoreCaseAt(buf, e - 3, kwEND))

\* the unit BEGIN TRANSACTION;
TransactionUnit ==
    CHOOSE u \in DOMAIN Units : Units[u] = kwBEGIN \o <<" ">> \o kwTRANSACTION \o <<";">>

\* C19: text that begins with BEGIN TRANSACTION is split at its semicolons,
\* by split_sql and by statement_at_caret alike; any other text that begins
\* with a BEGIN or DECLARE block has that block as its first statement,
\* whatever follows the block in the buffer.
CE_C19_TransactionExclusion ==
    /\ (segPc = "split" /\ BeginsWith(TransactionUnit)) =>
          /\ Len(splitOut) >= 1
          /\ splitOut[1] = Span(0, Len(Units[TransactionUnit]) - 1)
    /\ (segPc = "caret" /\ BeginsWith(TransactionUnit) /\ caret < Len(Units[TransactionUnit])) =>
          /\ caretOut.some
          /\ caretOut.s = 0
          /\ caretOut.e <= Len(Units[TransactionUnit])
    /\ \A u \in CleanBlocks : \A v \in DOMAIN Units :
          (segPc = "split" /\ IsPair(u, v)) =>
              /\ Len(splitOut) >= 1
              /\ splitOut[1] = Span(0, Len(Units[u]))

\* C20: statement_at_caret returns a statement whenever the caret touches a
\* statement of the buffer, and when the caret is at the very end of a
\* buffer whose last statement is not followed by blank text.
CE_C20_CaretAlwaysResolves ==
    (/\ segPc = "caret"
     /\ \/ \E k \in DOMAIN splitOut : splitOut[k].s <= caret /\ caret <= splitOut[k].e
        \/ /\ caret = Len(buf)
           /\ Len(splitOut) >= 1
           /\ ~IsWs(At(buf, Len(buf) - 1)))
    => caretOut.some

\* the span sp lies in the text and is not empty
IsSubstring(text, sp) == 0 <= sp.s /\ sp.s < sp.e /\ sp.e <= Len(text)

\* C23: every statement split_sql returns is a contiguous substring of the
\* input (a span of it, so no character inside is altered); the statements
\* appear in input order and do not overlap: each begins at or after the end
\* of the one before.
CE_C23_StatementsInOrderDisjoint ==
    segPc = "split" =>
        /\ \A k \in DOMAIN splitOut : IsSubstring(buf, splitOut[k])
        /\ \A k \in DOMAIN splitOut :
              k + 1 \in DOMAIN splitOut => splitOut[k].e <= splitOut[k + 1].s

\* the units that are one whole segment closed by its own semicolon: the
\* simple statement, the blocks, the DDL with a block
SimpleStatement == CHOOSE u \in DOMAIN Units : Units[u] = <<"x", ";">>
WholeSegments == {SimpleStatement} \cup CleanBlocks \cup {DdlWithBlock}

\* the caret is at the first byte after the segment the buffer begins with,
\* and more text follows
CaretAfterFirstSegment(u) ==
    /\ segPc = "caret"
    /\ \E v \in DOMAIN Units : IsPair(u, v)
    /\ caret = Len(Units[u])

\* C35: segments are half-open.  A caret at the end offset of a segment,
\* the first byte after the semicolon that closes a statement or a block
\* construct, resolves to what follows and never to the segment before it.
CE_C35_SegmentsAreHalfOpen ==
    \A u \in WholeSegments :
        (CaretAfterFirstSegment(u) /\ caretOut.some) => caretOut.s >= caret

\* CREATE ... AS with a body that is a simple statement, no BEGIN...END
DdlWithoutBlock ==
    CHOOSE u \in DOMAIN Units :
        /\ StartsWith(Units[u], kwCREATE)
        /\ EndsWith(Units[u], <<";">>)
        /\ ~ContainsFrom(Units[u], 0, kwBEGIN)

\* C40: a CREATE PROCEDURE|FUNCTION|TASK statement with no BEGIN...END body
\* before its own Normal-state semicolon ends at that semicolon, whatever
\* follows it: a BEGIN...END of a later statement is not absorbed.
CE_C40_DdlSearchStopsAtSemicolon ==
    \A v \in DOMAIN Units :
        (segPc = "split" /\ IsPair(DdlWithoutBlock, v)) =>
            /\ Len(splitOut) >= 1
            /\ splitOut[1] = Span(0, Len(Units[DdlWithoutBlock]) - 1)


(***************************************************************************)
(* Part III.  Properties of the scanner.                                   *)
(***************************************************************************)
Stepped == scanOut.what # "None"

\* the byte at the offset of the last call, and the byte after it ("" if none)
ByteAt == IF scanOut.i < Len(buf) THEN At(buf, scanOut.i) ELSE ""
ByteAfter == Get(buf, scanOut.i + 1)

\* C13: a step call at an offset inside the input returns a larger offset
\* that is at most the length; a call at or past the end returns Eof with
\* the offset and the state it was given.
Thm_C13_StepProgressInBounds ==
    Stepped =>
        /\ scanOut.i < Len(buf) =>
              /\ scanOut.i < scanOut.next
              /\ scanOut.next <= Len(buf)
              /\ scanOut.what # "Eof"
        /\ scanOut.i >= Len(buf) =>
              /\ scanOut.what = "Eof"
              /\ scanOut.next = scanOut.i
              /\ scanOut.state = scanOut.entry

\* C13 witness: a call that consumed two bytes and stopped exactly at the end
Wit_C13_TwoBytesToTheEnd ==
    /\ Stepped
    /\ scanOut.next = scanOut.i + 2
    /\ scanOut.next = Len(buf)

\* C14: step returns Semi only for a semicolon read in Normal state, and
\* leaves the state Normal; in the five other states a semicolon is consumed
\* as an ordinary byte.
Thm_C14_SemiOnlyFromNormal ==
    (Stepped /\ scanOut.what = "Semi") =>
        /\ scanOut.entry = "Normal"
        /\ ByteAt = ";"
        /\ scanOut.state = "Normal"

\* C14 witness: a semicolon read in a state other than Normal
Wit_C14_SemicolonInsideConstruct ==
    /\ Stepped
    /\ scanOut.entry # "Normal"
    /\ ByteAt = ";"
    /\ scanOut.what = "Advance"

\* the quote character of a quoted state
QuoteOf(state) == IF state = "InSingle" THEN "'" ELSE "\""

\* C15: in InSingle and InDouble one step consumes a doubled quote as two
\* bytes and stays, consumes a backslash followed by the quote as two bytes
\* and stays, returns to Normal on a lone quote consuming one byte, and
\* consumes any other byte singly and stays.
Thm_C15_QuotedStates ==
    (Stepped /\ scanOut.entry \in {"InSingle", "InDouble"} /\ scanOut.i < Len(buf)) =>
        LET q == QuoteOf(scanOut.entry)
        IN  /\ scanOut.what = "Advance"
            /\ (ByteAt = q /\ ByteAfter = q) =>
                  scanOut.next = scanOut.i + 2 /\ scanOut.state = scanOut.entry
            /\ (ByteAt = "\\" /\ ByteAfter = q) =>
                  scanOut.next = scanOut.i + 2 /\ scanOut.state = scanOut.entry
            /\ (ByteAt = q /\ ByteAfter # q) =>
                  scanOut.next = scanOut.i + 1 /\ scanOut.state = "Normal"
            /\ (ByteAt # q /\ ~(ByteAt = "\\" /\ ByteAfter = q)) =>
                  scanOut.next = scanOut.i + 1 /\ scanOut.state = scanOut.entry

\* C15 witness: a backslash followed by the quote of the state, consumed as
\* an escape
Wit_C15_BackslashEscape ==
    /\ Stepped
    /\ scanOut.entry \in {"InSingle", "InDouble"}
    /\ ByteAt = "\\"
    /\ ByteAfter = QuoteOf(scanOut.entry)
    /\ scanOut.next = scanOut.i + 2

\* the two bytes that end a comment or a dollar-quoted body
EndsConstruct(state, c, d) ==
    \/ state = "InBlock" /\ c = "*" /\ d = "/"
    \/ state = "InLine" /\ c = "\n"
    \/ state = "InDollar" /\ c = "$" /\ d = "$"

\* C16: InBlock, InLine and InDollar return to Normal exactly by consuming
\* their terminator; any other byte is consumed singly with the state
\* unchanged; and the call that opens one of them consumes both bytes of the
\* opener, so that the next call reads after them.
Thm_C16_ConstructsEndOnlyAtTerminator ==
    /\ (Stepped /\ scanOut.entry \in {"InBlock", "InLine", "InDollar"} /\ scanOut.i < Len(buf)) =>
          IF EndsConstruct(scanOut.entry, ByteAt, ByteAfter)
            THEN /\ scanOut.state = "Normal"
                 /\ scanOut.next = scanOut.i + (IF scanOut.entry = "InLine" THEN 1 ELSE 2)
            ELSE /\ scanOut.state = scanOut.entry
                 /\ scanOut.next = scanOut.i + 1
    /\ (Stepped /\ scanOut.entry = "Normal" /\ scanOut.state \in {"InBlock", "InLine", "InDollar"}) =>
          /\ scanOut.next = scanOut.i + 2
          /\ scanI = scanOut.i + 2

\* C16 witness: inside the block comment opened by the two bytes before, a
\* slash right after the opener's star does not end the comment
Wit_C16_OpenerNotReused ==
    /\ Stepped
    /\ scanOut.entry = "InBlock"
    /\ scanOut.i >= 2
    /\ scanOut.i < Len(buf)
    /\ At(buf, scanOut.i - 2) = "/"
    /\ At(buf, scanOut.i - 1) = "*"
    /\ ByteAt = "/"
    /\ scanOut.state = "InBlock"

(***************************************************************************)
(* Part IV.  Properties of queries_for_execution.                          *)
(***************************************************************************)
\* a non-empty selection exists
HasSelection == selection.some /\ selection.a # selection.b

\* the selected text
SelectedText ==
    Slice(buf, selection_range(selection).start, selection_range(selection).end)

\* the text t trimmed
Trimmed(t) == Slice(t, Trim(t, 0, Len(t)).s, Trim(t, 0, Len(t)).e)

\* the text t without its last byte when that is a semicolon, trimmed
WithoutSemicolon(t) ==
    IF Len(t) > 0 /\ t[Len(t)] = ";" THEN Trimmed(SubSeq(t, 1, Len(t) - 1)) ELSE t

\* the text of the statement the caret resolver returns
ResolvedText(stmt) == Slice(buf, stmt.s, stmt.e)

\* with no selection: at most one statement, the resolver's (here even
\* allowing its terminating semicolon to be dropped), none when it finds none
IsResolverResult(stmt) ==
    /\ Len(queries) <= 1
    /\ ~stmt.some => queries = <<>>
    /\ Len(queries) = 1 =>
          /\ stmt.some
          /\ queries[1] \in {ResolvedText(stmt), WithoutSemicolon(ResolvedText(stmt))}

\* C21: queries_for_execution returns split_sql(selected text) whenever a
\* non-empty selection exists; with no selection or an empty one it returns
\* at most one statement, the result of statement_at_caret on the whole
\* buffer, and the empty list when statement_at_caret returns None.
CE_C21_SelectionElseOneCaretStatement ==
    segPc = "queries" =>
        IF HasSelection THEN queries = split_sql_collect(SelectedText)
        ELSE IsResolverResult(statement_at_caret(buf, caret))

\* the buffer is made of simple statements: no quote, no comment, no dollar
\* quoting and no block or DDL keyword
IsSimple(text) ==
    /\ \A k \in DOMAIN text : text[k] \notin {"'", "\"", "-", "/", "*", "$"}
    /\ ~ContainsFrom(text, 0, kwBEGIN)
    /\ ~ContainsFrom(text, 0, kwDECLARE)
    /\ ~ContainsFrom(text, 0, kwCREATE)

\* the statements of a simple buffer: the trimmed, non-blank pieces between
\* its semicolons
SimpleStatements(text) == Pieces(text, NormalSemis(text, 0, "Normal", <<>>), 0, <<>>)

\* the caret is strictly inside the statement sp
StrictlyInside(c, sp) == sp.s < c /\ c < sp.e

\* queries_for_execution has been called with no (or an empty) selection on
\* a simple buffer
CaretOnSimpleBuffer ==
    segPc \in {"queries", "panicked"} /\ ~HasSelection /\ IsSimple(buf)

\* C22: on a buffer of simple semicolon-terminated statements, with no
\* selection, a caret strictly inside statement k makes queries_for_execution
\* return exactly one statement: the text of statement k, trimmed and
\* without its semicolon.
CE_C22_CaretRunsItsStatement ==
    CaretOnSimpleBuffer =>
        \A k \in DOMAIN SimpleStatements(buf) :
            StrictlyInside(caret, SimpleStatements(buf)[k]) =>
                /\ segPc = "queries"
                /\ queries = <<Slice(buf, SimpleStatements(buf)[k].s, SimpleStatements(buf)[k].e)>>

(***************************************************************************)
(* Part V.  Properties of the batch driver.                                *)
(***************************************************************************)
\* C33: run_batch_mode returns an error for a failed statement or a failed
\* save only when exit_on_error is set; with the flag clear, once an Error
\* has been counted the driver still finishes the run and does not end on a
\* receive timeout (the worker thread being alive).
CE_C33_DriverFinishesAfterError ==
    /\ batchPc = "failed" => exit_on_error
    /\ (~exit_on_error /\ errors_count > 0 /\ wpc # "panicked") => batchPc # "timeout"

====
